---- MODULE Spec2Model ----
(***************************************************************************)
(* A model of the lox mesh library: the SharedVertexMesh data structure    *)
(* (src/ds/shared_vertex.rs), the optional handle wrapper Opt              *)
(* (src/handle.rs), the numeric cast module (src/cast.rs), the STL writer  *)
(* (fev-io/src/stl/write.rs), the convert tool (tools/convert/src/main.rs) *)
(* the raw PLY results of io/ply/tests.rs and the property map traits      *)
(* (src/map/mod.rs).                                                       *)
(***************************************************************************)
EXTENDS Integers, Sequences, FiniteSets, TLC

VARIABLES
    vertices,   \* SharedVertexMesh.vertices : VecMap<VertexHandle, ()>
    faces,      \* SharedVertexMesh.faces    : VecMap<FaceHandle, [VertexHandle; 3]>
    last,       \* the last mesh operation: its name, whether it panicked, what it returned
    mintedV,    \* history: the vertex handles returned by add_vertex, in call order
    mintedF,    \* history: the face handles minted (add_triangle, split_face), in order
    positions,  \* a detached vertex property map filled while a mesh is built
    castCall,   \* the last call into the cast module: function, types, value, result
    opt,        \* the last Opt<H> constructed: constructor, argument, value
    stl,        \* a call into the STL writer: its arguments, its outcome, its output
    tool,       \* a run of the convert tool: its circumstances, streams and exit code
    xfer,       \* a transfer from a reader into a mesh sink: the file, the cursor
    ply,        \* a PLY raw result being compared across encodings
    pmap,       \* a property map or store: the map, the last call and its result
    hnext       \* a call of HSizeExt::next: the index, the build, the outcome

vars ==
    <<vertices, faces, last, mintedV, mintedF, positions, castCall, opt,
      stl, tool, xfer, ply, pmap, hnext>>

\* The variables of the mesh.
meshVars == <<vertices, faces, last, mintedV, mintedF, positions>>

\* What the operations of each part leave alone.
notMesh == <<castCall, opt, stl, tool, xfer, ply, pmap, hnext>>
notCast == <<meshVars, opt, stl, tool, xfer, ply, pmap, hnext>>
notOpt == <<meshVars, castCall, stl, tool, xfer, ply, pmap, hnext>>
notStl == <<meshVars, castCall, opt, tool, xfer, ply, pmap, hnext>>
notTool == <<meshVars, castCall, opt, stl, xfer, ply, pmap, hnext>>
notXfer == <<castCall, opt, stl, tool, ply, pmap, hnext>>
notPly == <<meshVars, castCall, opt, stl, tool, xfer, pmap, hnext>>
notPMap == <<meshVars, castCall, opt, stl, tool, xfer, ply, hnext>>
notHNext == <<meshVars, castCall, opt, stl, tool, xfer, ply, pmap>>

\* Nothing has been called yet.
Idle == [call |-> "idle"]

-----------------------------------------------------------------------------
(* Bounds of the model.                                                    *)

\* No more than MaxVertices vertex handles are minted in one behaviour.
MaxVertices == 3
\* No more than MaxFaces face handles are minted in one behaviour.
MaxFaces == 3
\* No more than MaxMinted handles, of vertices and faces together, are minted
\* in one behaviour.
MaxMinted == 6

\* Handle indices the operations are called with: every index that can have
\* been minted, and one that cannot.
VertexIdx == 0..MaxVertices
FaceIdx == 0..MaxFaces

\* Property values that accompany a vertex while a mesh is built.
Props == {"p", "q"}

-----------------------------------------------------------------------------
(* Option<T>.                                                              *)

None == [some |-> FALSE]
Some(x) == [some |-> TRUE, val |-> x]

-----------------------------------------------------------------------------
(* HSizeExt: the successor of a handle index.  The mesh model stays far    *)
(* below the end of the 32-bit index space.                                *)

HSizeNext(i) == i + 1

-----------------------------------------------------------------------------
(* VecMap<H, T>: a dense array indexed by the handle's integer, with a     *)
(* count of the occupied slots.  Slot i of the array is slots[i + 1].      *)

Vacant == [used |-> FALSE]
Occupied(v) == [used |-> TRUE, val |-> v]

VecMapEmpty == [slots |-> <<>>, num_elements |-> 0]

VecMapNumElements(m) == m.num_elements

\* The handle the next push will return.
VecMapNextPushHandle(m) == Len(m.slots)

VecMapContainsHandle(m, h) ==
    /\ h < Len(m.slots)
    /\ m.slots[h + 1].used

\* map[h]; the caller has established VecMapContainsHandle(m, h) (the index
\* operator panics otherwise).
VecMapIndex(m, h) == m.slots[h + 1].val

\* map[h] = v
VecMapIndexSet(m, h, v) == [m EXCEPT !.slots[h + 1] = Occupied(v)]

\* push(v): the new map; the handle returned is VecMapNextPushHandle(m).
VecMapPush(m, v) ==
    [slots |-> Append(m.slots, Occupied(v)),
     num_elements |-> HSizeNext(m.num_elements)]

VecMapRemove(m, h) ==
    IF VecMapContainsHandle(m, h)
    THEN [slots |-> [m.slots EXCEPT ![h + 1] = Vacant],
          num_elements |-> m.num_elements - 1]
    ELSE m

\* clear(): contains_handle is false for every handle afterwards; handles
\* stay monotonic, so the slots already handed out are not handed out again.
VecMapClear(m) ==
    [slots |-> [i \in DOMAIN m.slots |-> Vacant], num_elements |-> 0]

VecMapLastHandle(m) ==
    LET used == {i \in 0..(Len(m.slots) - 1) : m.slots[i + 1].used}
    IN IF used = {} THEN None
       ELSE Some(CHOOSE i \in used : \A j \in used : j <= i)

-----------------------------------------------------------------------------
(* impl Mesh for SharedVertexMesh.  Each operator takes the fields of the  *)
(* mesh it reads.                                                          *)

num_vertices(vs) == VecMapNumElements(vs)

\* A variant of num_faces that reports the length of the face array.
num_faces_by_len(fs) == VecMapNextPushHandle(fs)

num_faces(fs) == VecMapNumElements(fs)

contains_vertex(vs, vertex) == VecMapContainsHandle(vs, vertex)

contains_face(fs, face) == VecMapContainsHandle(fs, face)

\* (start.idx()..next_push_handle().idx()).find(contains_handle): the range
\* is walked upwards from i and the walk stops at the first handle the map
\* contains, or at the end of the range.
RECURSIVE FindContained(_, _, _)
FindContained(m, i, end) ==
    IF i >= end THEN None
    ELSE IF VecMapContainsHandle(m, i) THEN Some(i)
    ELSE FindContained(m, HSizeNext(i), end)

\* A variant of next_vertex_handle_from whose range ends at the number of
\* vertices.
next_vertex_handle_from_by_count(vs, start) ==
    FindContained(vs, start, VecMapNumElements(vs))

next_vertex_handle_from(vs, start) ==
    FindContained(vs, start, VecMapNextPushHandle(vs))

next_face_handle_from(fs, start) ==
    FindContained(fs, start, VecMapNextPushHandle(fs))

last_vertex_handle(vs) == VecMapLastHandle(vs)

last_face_handle(fs) == VecMapLastHandle(fs)

\* Mesh::vertices(): the handles the iterator yields, in the order it
\* yields them.  It starts at index 0 and asks next_vertex_handle_from for
\* the next handle at or after the one following the handle just yielded.
RECURSIVE VerticesFrom(_, _)
VerticesFrom(vs, start) ==
    LET n == next_vertex_handle_from(vs, start)
    IN IF n.some THEN <<n.val>> \o VerticesFrom(vs, HSizeNext(n.val)) ELSE <<>>

Vertices(vs) == VerticesFrom(vs, 0)

RECURSIVE FacesFrom(_, _)
FacesFrom(fs, start) ==
    LET n == next_face_handle_from(fs, start)
    IN IF n.some THEN <<n.val>> \o FacesFrom(fs, HSizeNext(n.val)) ELSE <<>>

Faces(fs) == FacesFrom(fs, 0)

\* check_integrity(): TRUE when it returns, FALSE when it panics.
check_integrity(vs, fs) ==
    \A f \in 0..(VecMapNextPushHandle(fs) - 1) :
        VecMapContainsHandle(fs, f) =>
            LET va == VecMapIndex(fs, f)[1]
                vb == VecMapIndex(fs, f)[2]
                vc == VecMapIndex(fs, f)[3]
            IN /\ VecMapContainsHandle(vs, va)
               /\ VecMapContainsHandle(vs, vb)
               /\ VecMapContainsHandle(vs, vc)
               /\ ~(va = vb \/ va = vc \/ vb = vc)

-----------------------------------------------------------------------------
(* impl MeshMut for SharedVertexMesh.  An operation yields the fields it   *)
(* writes, the value it returns and whether it panicked; a panic happens   *)
(* before the operation has written anything.                              *)

\* A variant of add_vertex that names the new vertex after the number of
\* vertices the mesh holds.
add_vertex_by_count(vs) ==
    [vertices |-> VecMapPush(vs, "unit"), ret |-> VecMapNumElements(vs)]

\* A variant of add_vertex that asks for the handle after the push.
add_vertex_after_push(vs) ==
    [vertices |-> VecMapPush(vs, "unit"),
     ret |-> VecMapNextPushHandle(VecMapPush(vs, "unit"))]

\* self.vertices.push(())
add_vertex(vs) ==
    [vertices |-> VecMapPush(vs, "unit"), ret |-> VecMapNextPushHandle(vs)]

\* A variant of add_triangle without the assertion on its third vertex.
add_triangle_unchecked_vc(vs, fs, tri) ==
    LET va == tri[1]
        vb == tri[2]
        vc == tri[3]
    IN IF /\ VecMapContainsHandle(vs, va)
          /\ VecMapContainsHandle(vs, vb)
          /\ va # vb
          /\ va # vc
       THEN [panicked |-> FALSE,
             faces |-> VecMapPush(fs, <<va, vb, vc>>),
             ret |-> Some(VecMapNextPushHandle(fs))]
       ELSE [panicked |-> TRUE, faces |-> fs, ret |-> None]

\* A variant of add_triangle for manifold meshes: it refuses a face at a
\* vertex that already has faces unless the new face shares an edge with
\* one of them.
add_triangle_manifold_only(vs, fs, tri) ==
    LET va == tri[1]
        vb == tri[2]
        vc == tri[3]
        corners(f) == {VecMapIndex(fs, f)[i] : i \in 1..3}
        around(v) == {f \in 0..(VecMapNextPushHandle(fs) - 1) :
                        VecMapContainsHandle(fs, f) /\ v \in corners(f)}
        fits(v) == around(v) = {} \/
                   \E f \in around(v) :
                      Cardinality(corners(f) \cap {va, vb, vc}) >= 2
    IN IF /\ VecMapContainsHandle(vs, va)
          /\ VecMapContainsHandle(vs, vb)
          /\ VecMapContainsHandle(vs, vc)
          /\ va # vb
          /\ va # vc
          /\ fits(va) /\ fits(vb) /\ fits(vc)
       THEN [panicked |-> FALSE,
             faces |-> VecMapPush(fs, <<va, vb, vc>>),
             ret |-> Some(VecMapNextPushHandle(fs))]
       ELSE [panicked |-> TRUE, faces |-> fs, ret |-> None]

add_triangle(vs, fs, tri) ==
    LET va == tri[1]
        vb == tri[2]
        vc == tri[3]
    IN IF /\ VecMapContainsHandle(vs, va)
          /\ VecMapContainsHandle(vs, vb)
          /\ VecMapContainsHandle(vs, vc)
          /\ va # vb
          /\ va # vc
       THEN [panicked |-> FALSE,
             faces |-> VecMapPush(fs, <<va, vb, vc>>),
             ret |-> Some(VecMapNextPushHandle(fs))]
       ELSE [panicked |-> TRUE, faces |-> fs, ret |-> None]

remove_face(fs, face) == VecMapRemove(fs, face)

\* A variant of remove_all_vertices that clears before it asserts.
remove_all_vertices_clear_first(vs, fs) ==
    [panicked |-> num_faces(fs) # 0, vertices |-> VecMapClear(vs)]

remove_all_vertices(vs, fs) ==
    IF num_faces(fs) = 0
    THEN [panicked |-> FALSE, vertices |-> VecMapClear(vs)]
    ELSE [panicked |-> TRUE, vertices |-> vs]

remove_all_faces(fs) == VecMapClear(fs)

\* A variant of split_face that mints the centre before it looks the face
\* up.
split_face_vertex_first(vs, fs, f) ==
    LET added == add_vertex(vs)
        center == added.ret
    IN IF ~VecMapContainsHandle(fs, f)
       THEN [panicked |-> TRUE, vertices |-> added.vertices, faces |-> fs,
             ret |-> None]
       ELSE LET va == VecMapIndex(fs, f)[1]
                vb == VecMapIndex(fs, f)[2]
                vc == VecMapIndex(fs, f)[3]
                f1 == VecMapIndexSet(fs, f, <<va, vb, center>>)
                f2 == VecMapPush(f1, <<vb, vc, center>>)
                f3 == VecMapPush(f2, <<vc, va, center>>)
            IN [panicked |-> FALSE, vertices |-> added.vertices,
                faces |-> f3, ret |-> Some(center)]

\* self.faces[f] panics when f is not contained.
split_face(vs, fs, f) ==
    IF ~VecMapContainsHandle(fs, f)
    THEN [panicked |-> TRUE, vertices |-> vs, faces |-> fs, ret |-> None]
    ELSE LET va == VecMapIndex(fs, f)[1]
             vb == VecMapIndex(fs, f)[2]
             vc == VecMapIndex(fs, f)[3]
             added == add_vertex(vs)
             center == added.ret
             f1 == VecMapIndexSet(fs, f, <<va, vb, center>>)
             f2 == VecMapPush(f1, <<vb, vc, center>>)
             f3 == VecMapPush(f2, <<vc, va, center>>)
         IN [panicked |-> FALSE, vertices |-> added.vertices, faces |-> f3,
             ret |-> Some(center)]

\* BasicAdj::vertices_around_triangle
vertices_around_triangle(fs, face) == VecMapIndex(fs, face)

-----------------------------------------------------------------------------
(* The mesh as a state machine: a client calls the public mutators in any  *)
(* order, with any handles.                                                *)

Op(name, panicked, ret) == [op |-> name, panicked |-> panicked, ret |-> ret]

\* SharedVertexMesh::empty()
MeshInit ==
    /\ vertices = VecMapEmpty
    /\ faces = VecMapEmpty
    /\ last = Op("empty", FALSE, None)
    /\ mintedV = <<>>
    /\ mintedF = <<>>
    /\ positions = <<>>

Init ==
    /\ MeshInit
    /\ castCall = [fn |-> "idle"]
    /\ opt = Idle
    /\ stl = Idle /\ tool = Idle /\ xfer = Idle /\ ply = Idle
    /\ pmap = Idle /\ hnext = Idle

\* Room to mint nv more vertex handles and nf more face handles.
Room(nv, nf) ==
    /\ Len(mintedV) + nv <= MaxVertices
    /\ VecMapNextPushHandle(vertices) + nv <= MaxVertices
    /\ Len(mintedF) + nf <= MaxFaces
    /\ VecMapNextPushHandle(faces) + nf <= MaxFaces
    /\ Len(mintedV) + Len(mintedF) + nv + nf <= MaxMinted

AddVertex ==
    /\ Room(1, 0)
    /\ LET r == add_vertex(vertices)
       IN /\ vertices' = r.vertices
          /\ last' = Op("add_vertex", FALSE, Some(r.ret))
          /\ mintedV' = Append(mintedV, r.ret)
    /\ UNCHANGED <<faces, mintedF, positions>>
    /\ UNCHANGED notMesh

AddTriangle ==
    /\ Room(0, 1)
    /\ \E va \in VertexIdx, vb \in VertexIdx, vc \in VertexIdx :
          LET r == add_triangle(vertices, faces, <<va, vb, vc>>)
          IN /\ faces' = r.faces
             /\ last' = Op("add_triangle", r.panicked, r.ret)
             /\ mintedF' = IF r.panicked THEN mintedF
                           ELSE Append(mintedF, r.ret.val)
    /\ UNCHANGED <<vertices, mintedV, positions>>
    /\ UNCHANGED notMesh

RemoveFace ==
    /\ \E f \in FaceIdx :
          /\ faces' = remove_face(faces, f)
          /\ last' = Op("remove_face", FALSE, None)
    /\ UNCHANGED <<vertices, mintedV, mintedF, positions>>
    /\ UNCHANGED notMesh

RemoveAllVertices ==
    /\ LET r == remove_all_vertices(vertices, faces)
       IN /\ vertices' = r.vertices
          /\ last' = Op("remove_all_vertices", r.panicked, None)
    /\ UNCHANGED <<faces, mintedV, mintedF, positions>>
    /\ UNCHANGED notMesh

RemoveAllFaces ==
    /\ faces' = remove_all_faces(faces)
    /\ last' = Op("remove_all_faces", FALSE, None)
    /\ UNCHANGED <<vertices, mintedV, mintedF, positions>>
    /\ UNCHANGED notMesh

SplitFace ==
    /\ Room(1, 2)
    /\ \E f \in FaceIdx :
          LET r == split_face(vertices, faces, f)
              n == VecMapNextPushHandle(faces)
          IN /\ vertices' = r.vertices
             /\ faces' = r.faces
             /\ last' = Op("split_face", r.panicked, r.ret)
             /\ mintedV' = IF r.panicked THEN mintedV
                           ELSE Append(mintedV, r.ret.val)
             /\ mintedF' = IF r.panicked THEN mintedF
                           ELSE mintedF \o <<n, HSizeNext(n)>>
    /\ UNCHANGED positions
    /\ UNCHANGED notMesh

Next ==
    \/ AddVertex
    \/ AddTriangle
    \/ RemoveFace
    \/ RemoveAllVertices
    \/ RemoveAllFaces
    \/ SplitFace

Spec == Init /\ [][Next]_vars

-----------------------------------------------------------------------------
(* Building a mesh the way a reader's sink or the mesh! macro does: only   *)
(* additions, each vertex accompanied by a property value that goes into   *)
(* a detached map.                                                         *)

BuildVertex ==
    /\ Room(1, 0)
    /\ \E p \in Props :
          LET r == add_vertex(vertices)
          IN /\ vertices' = r.vertices
             /\ positions' = (r.ret :> p) @@ positions
             /\ last' = Op("add_vertex", FALSE, Some(r.ret))
             /\ mintedV' = Append(mintedV, r.ret)
    /\ UNCHANGED <<faces, mintedF>>
    /\ UNCHANGED notMesh

BuildTriangle ==
    /\ Room(0, 1)
    /\ \E va \in VertexIdx, vb \in VertexIdx, vc \in VertexIdx :
          LET r == add_triangle(vertices, faces, <<va, vb, vc>>)
          IN /\ ~r.panicked
             /\ faces' = r.faces
             /\ last' = Op("add_triangle", FALSE, r.ret)
             /\ mintedF' = Append(mintedF, r.ret.val)
    /\ UNCHANGED <<vertices, mintedV, positions>>
    /\ UNCHANGED notMesh

NextBuild ==
    \/ BuildVertex
    \/ BuildTriangle

SpecBuild == Init /\ [][NextBuild]_vars

-----------------------------------------------------------------------------
(* cast.rs: the primitive number types.  An integer value is its two's     *)
(* complement byte string, least significant byte first, as wide as its    *)
(* type; a float value is one of a few named values.                       *)

Types ==
    <<"u8", "u16", "u32", "u64", "u128",
      "i8", "i16", "i32", "i64", "i128", "f32", "f64">>

TypeSet == {Types[i] : i \in DOMAIN Types}

TypeIndex(t) == CHOOSE i \in DOMAIN Types : Types[i] = t

IsFloat(t) == t \in {"f32", "f64"}

IntTypes == {t \in TypeSet : ~IsFloat(t)}

Signed(t) == t \in {"i8", "i16", "i32", "i64", "i128"}

\* size_of::<t>()
Bytes(t) ==
    CASE t \in {"u8", "i8"} -> 1
      [] t \in {"u16", "i16"} -> 2
      [] t \in {"u32", "i32", "f32"} -> 4
      [] t \in {"u64", "i64", "f64"} -> 8
      [] t \in {"u128", "i128"} -> 16

Rigors == {"Lossless", "AllowClamping", "AllowRounding", "Lossy"}

\* t::min_value()
min_value(t) ==
    [i \in 1..Bytes(t) |-> IF Signed(t) /\ i = Bytes(t) THEN 128 ELSE 0]

\* t::max_value()
max_value(t) ==
    [i \in 1..Bytes(t) |-> IF Signed(t) /\ i = Bytes(t) THEN 127 ELSE 255]

\* Is the first of two equally long strings, most significant first, the
\* smaller one?
RECURSIVE LexLess(_, _)
LexLess(a, b) ==
    IF a = <<>> THEN FALSE
    ELSE IF Head(a) # Head(b) THEN Head(a) < Head(b)
    ELSE LexLess(Tail(a), Tail(b))

\* The bytes of v, most significant first, the sign bit of a signed type
\* flipped: the order of these strings is the order of the values.
OrderKey(v, t) ==
    [i \in 1..Len(v) |->
        LET b == v[Len(v) + 1 - i]
        IN IF i = 1 /\ Signed(t) THEN (b + 128) % 256 ELSE b]

\* a < b and a > b on two values of the integer type t
Lt(a, b, t) == LexLess(OrderKey(a, t), OrderKey(b, t))
Gt(a, b, t) == Lt(b, a, t)

\* `v as d` for a value v of the integer type s and an integer type d:
\* truncation to a narrower type, sign or zero extension to a wider one.
as_int(v, s, d) ==
    LET fill == IF Signed(s) /\ v[Len(v)] >= 128 THEN 255 ELSE 0
    IN [i \in 1..Bytes(d) |-> IF i <= Len(v) THEN v[i] ELSE fill]

\* A conversion this model does not compute: its name, its operand and its
\* target type.
Conv(how, v, s, d) == [conv |-> how, of |-> v, from |-> s, to |-> d]

\* src.into() (From between primitive types): value preserving.
into(v, s, d) ==
    IF IsFloat(s) \/ IsFloat(d)
    THEN (IF s = d THEN v ELSE Conv("into", v, s, d))
    ELSE as_int(v, s, d)

-----------------------------------------------------------------------------
(* cast.rs: the module documentation's table of what a cast can lose       *)
(* ("x" clamping, "o" rounding, "xo" both), rows are source types, columns *)
(* destination types in the order of Types.                                *)

CastTable ==
    [
      u8   |-> <<""  , ""  , ""  , ""  , ""  , "x" , ""  , ""  , ""  , ""  , ""  , ""  >>,
      u16  |-> <<"x" , ""  , ""  , ""  , ""  , "x" , "x" , ""  , ""  , ""  , ""  , ""  >>,
      u32  |-> <<"x" , "x" , ""  , ""  , ""  , "x" , "x" , "x" , ""  , ""  , "o" , ""  >>,
      u64  |-> <<"x" , "x" , "x" , ""  , ""  , "x" , "x" , "x" , "x" , ""  , "o" , "o" >>,
      u128 |-> <<"x" , "x" , "x" , "x" , ""  , "x" , "x" , "x" , "x" , "x" , "o" , "o" >>,
      i8   |-> <<"x" , "x" , "x" , "x" , "x" , ""  , ""  , ""  , ""  , ""  , ""  , ""  >>,
      i16  |-> <<"x" , "x" , "x" , "x" , "x" , "x" , ""  , ""  , ""  , ""  , ""  , ""  >>,
      i32  |-> <<"x" , "x" , "x" , "x" , "x" , "x" , "x" , ""  , ""  , ""  , "o" , ""  >>,
      i64  |-> <<"x" , "x" , "x" , "x" , "x" , "x" , "x" , "x" , ""  , ""  , "o" , "o" >>,
      i128 |-> <<"x" , "x" , "x" , "x" , "x" , "x" , "x" , "x" , "x" , ""  , "o" , "o" >>,
      f32  |-> <<"xo", "xo", "xo", "xo", "xo", "xo", "xo", "xo", "xo", "o" , ""  , ""  >>,
      f64  |-> <<"xo", "xo", "xo", "xo", "xo", "xo", "xo", "xo", "xo", "xo", "xo", ""  >>
    ]

\* What the table says of a cast at a rigor.
TablePermits(r, s, d) ==
    LET mark == CastTable[s][TypeIndex(d)]
    IN CASE r = "Lossless" -> mark = ""
         [] r = "AllowClamping" -> mark \in {"", "x"}
         [] r = "AllowRounding" -> mark \in {"", "o"}
         [] r = "Lossy" -> TRUE

-----------------------------------------------------------------------------
(* cast.rs: the implementations for the primitive types.                   *)

\* impl_lossless!(...)
LosslessPairs ==
    {
      <<"u8", "u8">>, <<"u8", "u16">>, <<"u8", "u32">>, <<"u8", "u64">>,
      <<"u8", "u128">>, <<"u16", "u16">>, <<"u16", "u32">>, <<"u16", "u64">>,
      <<"u16", "u128">>, <<"u32", "u32">>, <<"u32", "u64">>, <<"u32", "u128">>,
      <<"u64", "u64">>, <<"u64", "u128">>, <<"u128", "u128">>, <<"u8", "i16">>,
      <<"u8", "i32">>, <<"u8", "i64">>, <<"u8", "i128">>, <<"u16", "i32">>,
      <<"u16", "i64">>, <<"u16", "i128">>, <<"u32", "i64">>, <<"u32", "i128">>,
      <<"u64", "i128">>, <<"i8", "i8">>, <<"i8", "i16">>, <<"i8", "i32">>,
      <<"i8", "i64">>, <<"i8", "i128">>, <<"i16", "i16">>, <<"i16", "i32">>,
      <<"i16", "i64">>, <<"i16", "i128">>, <<"i32", "i32">>, <<"i32", "i64">>,
      <<"i32", "i128">>, <<"i64", "i64">>, <<"i64", "i128">>, <<"i128", "i128">>,
      <<"u8", "f32">>, <<"u8", "f64">>, <<"u16", "f32">>, <<"u16", "f64">>,
      <<"u32", "f64">>, <<"i8", "f32">>, <<"i8", "f64">>, <<"i16", "f32">>,
      <<"i16", "f64">>, <<"i32", "f64">>, <<"f32", "f32">>, <<"f32", "f64">>,
      <<"f64", "f64">>
    }

\* impl_clamping!(...): the cast method and the pair of each line.
ClampingList ==
    {
      <<"top", "u16", "u8">>, <<"top", "u32", "u8">>, <<"top", "u32", "u16">>,
      <<"top", "u64", "u8">>, <<"top", "u64", "u16">>, <<"top", "u64", "u32">>,
      <<"top", "u128", "u8">>, <<"top", "u128", "u16">>, <<"top", "u128", "u32">>,
      <<"top", "u128", "u64">>, <<"top", "u8", "i8">>, <<"top", "u16", "i8">>,
      <<"top", "u16", "i16">>, <<"top", "u32", "i8">>, <<"top", "u32", "i16">>,
      <<"top", "u32", "i32">>, <<"top", "u64", "i8">>, <<"top", "u64", "i16">>,
      <<"top", "u64", "i32">>, <<"top", "u64", "i64">>, <<"top", "u128", "i8">>,
      <<"top", "u128", "i16">>, <<"top", "u128", "i32">>, <<"top", "u128", "i64">>,
      <<"top", "u128", "i128">>, <<"neg", "i8", "u8">>, <<"neg", "i8", "u16">>,
      <<"neg", "i8", "u32">>, <<"neg", "i8", "u64">>, <<"neg", "i8", "u128">>,
      <<"both", "i16", "u8">>, <<"neg", "i16", "u16">>, <<"neg", "i16", "u32">>,
      <<"neg", "i16", "u64">>, <<"neg", "i16", "u128">>, <<"both", "i32", "u8">>,
      <<"both", "i32", "u16">>, <<"neg", "i32", "u32">>, <<"neg", "i32", "u64">>,
      <<"neg", "i32", "u128">>, <<"both", "i64", "u8">>, <<"both", "i64", "u16">>,
      <<"both", "i64", "u32">>, <<"neg", "i64", "u64">>, <<"neg", "i64", "u128">>,
      <<"both", "i128", "u8">>, <<"both", "i128", "u16">>, <<"both", "i128", "u32">>,
      <<"both", "i128", "u64">>, <<"neg", "i128", "u128">>, <<"both", "i16", "i8">>,
      <<"both", "i32", "i8">>, <<"both", "i32", "i16">>, <<"both", "i64", "i8">>,
      <<"both", "i64", "i16">>, <<"both", "i64", "i32">>, <<"both", "i128", "i8">>,
      <<"both", "i128", "i16">>, <<"both", "i128", "i32">>, <<"both", "i128", "i64">>
    }

ClampingPairs == {<<e[2], e[3]>> : e \in ClampingList}

\* A variant of ClampingMethod that only ever guards the upper limit.
ClampingMethodTopOnly(s, d) == "top"

\* The @do_cast method the invocation names for a pair.
ClampingMethod(s, d) ==
    CHOOSE m \in {"top", "neg", "both"} : <<m, s, d>> \in ClampingList

\* impl_rounding!(...)
RoundingPairs ==
    {
      <<"u32", "f32">>, <<"u64", "f32">>, <<"u64", "f64">>, <<"u128", "f32">>,
      <<"u128", "f64">>, <<"i32", "f32">>, <<"i64", "f32">>, <<"i64", "f64">>,
      <<"i128", "f32">>, <<"i128", "f64">>, <<"f32", "i128">>
    }

\* impl LossyCastFrom<f64> for f32
LossyFloatPairs == {<<"f64", "f32">>}

\* impl_lossy_float_to_int!(...)
LossyFloatToIntPairs ==
    {
      <<"f32", "u8">>, <<"f32", "u16">>, <<"f32", "u32">>, <<"f32", "u64">>,
      <<"f32", "u128">>, <<"f32", "i8">>, <<"f32", "i16">>, <<"f32", "i32">>,
      <<"f32", "i64">>, <<"f64", "u8">>, <<"f64", "u16">>, <<"f64", "u32">>,
      <<"f64", "u64">>, <<"f64", "u128">>, <<"f64", "i8">>, <<"f64", "i16">>,
      <<"f64", "i32">>, <<"f64", "i64">>, <<"f64", "i128">>
    }

\* The pairs (Src, Dst) for which Dst implements each rigor's trait.
LosslessCastFromImpls == LosslessPairs
ClampingCastFromImpls == LosslessPairs \cup ClampingPairs
RoundingCastFromImpls == LosslessPairs \cup RoundingPairs
LossyCastFromImpls ==
    LosslessPairs \cup ClampingPairs \cup RoundingPairs
        \cup LossyFloatPairs \cup LossyFloatToIntPairs

\* impl_clamping!(@do_cast ...)
do_cast(method, v, s, d) ==
    CASE method = "top" ->
            IF Gt(v, as_int(max_value(d), d, s), s) THEN max_value(d)
            ELSE as_int(v, s, d)
      [] method = "neg" ->
            IF Lt(v, as_int(min_value(d), d, s), s) THEN min_value(d)
            ELSE as_int(v, s, d)
      [] method = "both" ->
            IF Gt(v, as_int(max_value(d), d, s), s) THEN max_value(d)
            ELSE IF Lt(v, as_int(min_value(d), d, s), s) THEN min_value(d)
            ELSE as_int(v, s, d)

lossless_cast_from(v, s, d) == into(v, s, d)

clamping_cast_from(v, s, d) ==
    IF <<s, d>> \in LosslessPairs THEN into(v, s, d)
    ELSE do_cast(ClampingMethod(s, d), v, s, d)

rounding_cast_from(v, s, d) ==
    IF <<s, d>> \in LosslessPairs THEN into(v, s, d)
    ELSE Conv("as", v, s, d)

lossy_cast_from(v, s, d) ==
    CASE <<s, d>> \in LosslessPairs -> into(v, s, d)
      [] <<s, d>> \in ClampingPairs -> clamping_cast_from(v, s, d)
      [] <<s, d>> \in RoundingPairs -> rounding_cast_from(v, s, d)
      [] <<s, d>> \in LossyFloatPairs -> Conv("as", v, s, d)
      [] <<s, d>> \in LossyFloatToIntPairs -> Conv("saturating as", v, s, d)

\* A variant of CastFromImplemented that does not look at the rigor.
CastFromImplementedAnyRigor(r, s, d) == <<s, d>> \in LossyCastFromImpls

\* Is CastFrom<R, Src> implemented for Dst (the four blanket impls)?
CastFromImplemented(r, s, d) ==
    CASE r = "Lossless" -> <<s, d>> \in LosslessCastFromImpls
      [] r = "AllowClamping" -> <<s, d>> \in ClampingCastFromImpls
      [] r = "AllowRounding" -> <<s, d>> \in RoundingCastFromImpls
      [] r = "Lossy" -> <<s, d>> \in LossyCastFromImpls

\* <Dst as CastFrom<R, Src>>::cast_from(src)
cast_from(r, v, s, d) ==
    CASE r = "Lossless" -> lossless_cast_from(v, s, d)
      [] r = "AllowClamping" -> clamping_cast_from(v, s, d)
      [] r = "AllowRounding" -> rounding_cast_from(v, s, d)
      [] r = "Lossy" -> lossy_cast_from(v, s, d)

\* A variant of try_cast_from that, like a checked conversion, gives up when
\* the value does not survive the cast.
try_cast_from_checked(r, v, s, d) ==
    IF CastFromImplemented(r, s, d)
         /\ (<<s, d>> \in ClampingPairs => as_int(cast_from(r, v, s, d), d, s) = v)
    THEN Some(cast_from(r, v, s, d))
    ELSE None

\* <Dst as TryCastFrom<R, Src>>::try_cast_from(src): the specialised impl
\* where CastFrom is implemented, the default impl otherwise.
try_cast_from(r, v, s, d) ==
    IF CastFromImplemented(r, s, d) THEN Some(cast_from(r, v, s, d)) ELSE None

\* The casting functions.
clamping(v, s, d) == clamping_cast_from(v, s, d)
try_cast(r, v, s, d) == try_cast_from(r, v, s, d)
try_lossless(v, s, d) == try_cast_from("Lossless", v, s, d)
try_clamping(v, s, d) == try_cast_from("AllowClamping", v, s, d)
try_rounding(v, s, d) == try_cast_from("AllowRounding", v, s, d)
try_lossy(v, s, d) == try_cast_from("Lossy", v, s, d)

TryFunctions == {"try_lossless", "try_clamping", "try_rounding", "try_lossy"}

RigorOf(fn) ==
    CASE fn = "try_lossless" -> "Lossless"
      [] fn = "try_clamping" -> "AllowClamping"
      [] fn = "try_rounding" -> "AllowRounding"
      [] fn = "try_lossy" -> "Lossy"

TryCall(fn, v, s, d) ==
    CASE fn = "try_lossless" -> try_lossless(v, s, d)
      [] fn = "try_clamping" -> try_clamping(v, s, d)
      [] fn = "try_rounding" -> try_rounding(v, s, d)
      [] fn = "try_lossy" -> try_lossy(v, s, d)

-----------------------------------------------------------------------------
(* The values the cast functions are called with.                          *)

\* n copies of the byte b
Rep(b, n) == [i \in 1..n |-> b]

\* The values of the integer type t around the limits of every integer
\* type no wider than t: the low w bytes are a limit of a w-byte type or a
\* neighbour of one, the bytes above them are all 0 or all 255.
IntValues(t) ==
    LET n == Bytes(t)
        widths == {w \in {1, 2, 4, 8, 16} : w <= n}
        small == {<<b>> \o Rep(fill, n - 1) :
                    b \in {0, 1, 127, 128, 255}, fill \in {0, 255}}
        limits == UNION {
                    {Rep(lo, w - 1) \o <<hi>> \o Rep(fill, n - w) :
                        lo \in {0, 255}, hi \in {0, 127, 128, 255},
                        fill \in {0, 255}} :
                    w \in widths \ {1}}
        powers == {Rep(0, w) \o <<1>> \o Rep(0, n - w - 1) :
                    w \in {x \in widths : x < n}}
    IN small \cup limits \cup powers

\* "MIN" and "MAX" are the least and the greatest finite value of the type.
FloatValues == {"NaN", "-inf", "MIN", "-1.5", "0.0", "3.0", "MAX", "inf"}

Values(t) == IF IsFloat(t) THEN FloatValues ELSE IntValues(t)

-----------------------------------------------------------------------------
(* The cast module as a state machine: a client calls the try_* functions  *)
(* and clamping with any types and values.                                 *)

\* A call that has not run yet: the function and its arguments.
PendingTry ==
    UNION {
        {[fn |-> fn, rigor |-> RigorOf(fn), src |-> s, dst |-> d,
          value |-> v, done |-> FALSE] :
            fn \in TryFunctions, d \in TypeSet, v \in Values(s)} :
        s \in TypeSet}

\* clamping::<Src, Dst> compiles for the pairs with a ClampingCastFrom impl.
PendingClamping ==
    UNION {
        {[fn |-> "clamping", rigor |-> "AllowClamping", src |-> p[1],
          dst |-> p[2], value |-> v, done |-> FALSE] :
            v \in IntValues(p[1])} :
        p \in {q \in ClampingCastFromImpls :
                 q[1] \in IntTypes /\ q[2] \in IntTypes}}

InitCast ==
    /\ MeshInit
    /\ opt = Idle
    /\ stl = Idle /\ tool = Idle /\ xfer = Idle /\ ply = Idle
    /\ pmap = Idle /\ hnext = Idle
    /\ castCall \in PendingTry \cup PendingClamping

\* The call after it has returned.
Returned(call, result) ==
    [fn |-> call.fn, rigor |-> call.rigor, src |-> call.src, dst |-> call.dst,
     value |-> call.value, done |-> TRUE, result |-> result]

TryCast ==
    /\ castCall.fn \in TryFunctions
    /\ ~castCall.done
    /\ castCall' =
          Returned(castCall,
                   TryCall(castCall.fn, castCall.value,
                           castCall.src, castCall.dst))
    /\ UNCHANGED notCast

Clamping ==
    /\ castCall.fn = "clamping"
    /\ ~castCall.done
    /\ castCall' =
          Returned(castCall,
                   clamping(castCall.value, castCall.src, castCall.dst))
    /\ UNCHANGED notCast

NextCast ==
    \/ TryCast
    \/ Clamping

SpecCast == InitCast /\ [][NextCast]_vars

-----------------------------------------------------------------------------
(* handle.rs: handles and the optional handle Opt<H>.  A handle is its     *)
(* type and its index; an index is an hsize, the four bytes of a u32.      *)

hsize == "u32"

HandleKinds == {"F", "E", "V"}

Handle_new(kind, idx) == [kind |-> kind, idx |-> idx]

Handle_idx(h) == h.idx

\* A variant of is_none that takes index 0 for the reserved one.
Opt_is_none_zero(o) == Handle_idx(o.inner) = min_value(hsize)

Opt_none(kind) == [inner |-> Handle_new(kind, max_value(hsize))]

Opt_some(handle) == [inner |-> handle]

Opt_is_none(o) == Handle_idx(o.inner) = max_value(hsize)

Opt_is_some(o) == ~Opt_is_none(o)

Opt_to_option(o) == IF Opt_is_none(o) THEN None ELSE Some(o.inner)

Opt_unwrap(o) ==
    IF Opt_is_none(o)
    THEN [panicked |-> TRUE]
    ELSE [panicked |-> FALSE, ret |-> o.inner]

\* The indices the handles are made of: every mix of low, high and
\* next-to-high bytes, the reserved index among them.
HSizeValues ==
    {<<a, b, c, d>> : a \in {0, 254, 255}, b \in {0, 254, 255},
                      c \in {0, 254, 255}, d \in {0, 254, 255}}

Handles == {Handle_new(k, i) : k \in HandleKinds, i \in HSizeValues}

\* A client makes an optional handle with Opt::some or Opt::none and then
\* asks it everything it can be asked.
InitOpt ==
    /\ MeshInit
    /\ castCall = [fn |-> "idle"]
    /\ stl = Idle /\ tool = Idle /\ xfer = Idle /\ ply = Idle
    /\ pmap = Idle /\ hnext = Idle
    /\ opt \in {[call |-> "pending", handle |-> h] : h \in Handles}

OptSome ==
    /\ opt.call = "pending"
    /\ opt' = [call |-> "some", handle |-> opt.handle,
               value |-> Opt_some(opt.handle), inspected |-> FALSE]
    /\ UNCHANGED notOpt

OptNone ==
    /\ opt.call = "pending"
    /\ opt' = [call |-> "none", handle |-> opt.handle,
               value |-> Opt_none(opt.handle.kind), inspected |-> FALSE]
    /\ UNCHANGED notOpt

OptInspect ==
    /\ opt.call \in {"some", "none"}
    /\ ~opt.inspected
    /\ opt' = [call |-> opt.call, handle |-> opt.handle, value |-> opt.value,
               inspected |-> TRUE,
               is_none |-> Opt_is_none(opt.value),
               is_some |-> Opt_is_some(opt.value),
               to_option |-> Opt_to_option(opt.value),
               unwrap |-> Opt_unwrap(opt.value)]
    /\ UNCHANGED notOpt

NextOpt ==
    \/ OptSome
    \/ OptNone
    \/ OptInspect

SpecOpt == InitOpt /\ [][NextOpt]_vars

-----------------------------------------------------------------------------
(* f32 arithmetic, as far as the STL writer uses it.  A finite value is    *)
(* sig * 10^exp with sig not a multiple of 10 (zero is 0 * 10^0); the      *)
(* other values are the infinities and NaN.  Rounding to 24 bits and the   *)
(* sign of zero are left out.                                              *)

NaN == [k |-> "nan"]
Inf(neg) == [k |-> "inf", neg |-> neg]

RECURSIVE Num(_, _)
Num(sig, exp) ==
    IF sig = 0 THEN [k |-> "num", sig |-> 0, exp |-> 0]
    ELSE IF sig % 10 = 0 THEN Num(sig \div 10, exp + 1)
    ELSE [k |-> "num", sig |-> sig, exp |-> exp]

\* `n as f32` for a small integer n
F32FromInt(n) == Num(n, 0)

\* The integer a finite, integer-valued f32 stands for.
RECURSIVE IntOfF32(_)
IntOfF32(v) == IF v.exp = 0 THEN v.sig ELSE 10 * IntOfF32(Num(v.sig, v.exp - 1))

\* The number of decimal digits of a positive integer.
RECURSIVE Digits(_)
Digits(n) == IF n < 10 THEN 1 ELSE 1 + Digits(n \div 10)

\* v.log10().floor()
Log10Floor(v) ==
    CASE v.k = "nan" -> NaN
      [] v.k = "inf" -> IF v.neg THEN NaN ELSE Inf(FALSE)
      [] v.k = "num" ->
            IF v.sig < 0 THEN NaN
            ELSE IF v.sig = 0 THEN Inf(TRUE)
            ELSE F32FromInt(Digits(v.sig) - 1 + v.exp)

\* 10f32.powf(e)
Pow10(e) ==
    CASE e.k = "nan" -> NaN
      [] e.k = "inf" -> IF e.neg THEN F32FromInt(0) ELSE Inf(FALSE)
      [] e.k = "num" -> Num(1, IntOfF32(e))

\* a / b, for the divisions that come out even in decimal
F32Div(a, b) ==
    CASE a.k = "nan" \/ b.k = "nan" -> NaN
      [] a.k = "inf" /\ b.k = "inf" -> NaN
      [] a.k = "inf" /\ b.k = "num" -> Inf(a.neg # (b.sig < 0))
      [] a.k = "num" /\ b.k = "inf" -> F32FromInt(0)
      [] a.k = "num" /\ b.k = "num" ->
            IF b.sig = 0
            THEN (IF a.sig = 0 THEN NaN ELSE Inf(a.sig < 0))
            ELSE Num(a.sig \div b.sig, a.exp - b.exp)

\* What `{}` prints for an f32, and what `{:+}` prints.
Display(v) ==
    CASE v.k = "nan" -> [text |-> "NaN"]
      [] v.k = "inf" -> [text |-> IF v.neg THEN "-inf" ELSE "inf"]
      [] v.k = "num" -> [text |-> "decimal", plus |-> FALSE,
                         sig |-> v.sig, exp |-> v.exp]

DisplayPlus(v) ==
    CASE v.k = "nan" -> [text |-> "NaN"]
      [] v.k = "inf" -> [text |-> IF v.neg THEN "-inf" ELSE "+inf"]
      [] v.k = "num" -> [text |-> "decimal", plus |-> v.sig >= 0,
                         sig |-> v.sig, exp |-> v.exp]

-----------------------------------------------------------------------------
(* stl/write.rs: StlSerializer.                                            *)

\* serialize_f32: the token mantissa 'E' exponent.
serialize_f32(v) ==
    LET exponent == Log10Floor(v)
        mantissa == F32Div(v, Pow10(exponent))
    IN [mantissa |-> Display(mantissa), exponent |-> DisplayPlus(exponent)]

\* serialize_i32 (and the other integer types): `v as f32`, then the same.
serialize_i32(v) == serialize_f32(F32FromInt(v))

\* pos.x().serialize_single(StlSerializer::new(&mut w)) for each coordinate
SerializeVec(p) == <<serialize_i32(p[1]), serialize_i32(p[2]), serialize_i32(p[3])>>
SerializeF32Vec(n) == <<serialize_f32(n[1]), serialize_f32(n[2]), serialize_f32(n[3])>>

-----------------------------------------------------------------------------
(* stl/write.rs: FaceNormals.  Positions have integer coordinates; a       *)
(* property map is a function from the handles that have a value.          *)

Sub(p, q) == <<p[1] - q[1], p[2] - q[2], p[3] - q[3]>>

\* a.cross(b)
Cross(a, b) ==
    <<a[2] * b[3] - a[3] * b[2],
      a[3] * b[1] - a[1] * b[3],
      a[1] * b[2] - a[2] * b[1]>>

\* v.magnitude(), for the vectors whose length is a whole number
Magnitude(v) ==
    LET s == v[1] * v[1] + v[2] * v[2] + v[3] * v[3]
    IN CHOOSE r \in 0..s : r * r = s

\* v.cast::<f32>().unwrap().normalize(): every component times
\* 1 / magnitude, which is 0 * inf = NaN for the zero vector.
Normalize(v) ==
    LET m == F32FromInt(Magnitude(v))
    IN <<F32Div(F32FromInt(v[1]), m),
         F32Div(F32FromInt(v[2]), m),
         F32Div(F32FromInt(v[3]), m)>>

\* PropMap::get(handle)
PropMapGet(map, h) == IF h \in DOMAIN map THEN Some(map[h]) ELSE None

\* CalculateFaceNormals::get: the unwrap of a missing position panics.
CalculateFaceNormalsGet(tri, vertex_positions) ==
    LET a == PropMapGet(vertex_positions, tri[1])
        b == PropMapGet(vertex_positions, tri[2])
        c == PropMapGet(vertex_positions, tri[3])
    IN IF ~a.some \/ ~b.some \/ ~c.some
       THEN [panicked |-> TRUE]
       ELSE [panicked |-> FALSE,
             ret |-> Normalize(Cross(Sub(b.val, a.val), Sub(c.val, a.val)))]

\* FaceNormalMap::get: the normal stored for the face, cast to f32.
FaceNormalMapGet(map, face) ==
    LET prop == PropMapGet(map, face)
    IN IF ~prop.some
       THEN [panicked |-> TRUE]
       ELSE [panicked |-> FALSE,
             ret |-> <<F32FromInt(prop.val[1]), F32FromInt(prop.val[2]),
                       F32FromInt(prop.val[3])>>]

\* self.face_normals.get(face, mesh, &self.vertex_positions)
FaceNormalsGet(face_normals, face, tri, vertex_positions) ==
    IF face_normals.kind = "CalculateFaceNormals"
    THEN CalculateFaceNormalsGet(tri, vertex_positions)
    ELSE FaceNormalMapGet(face_normals.map, face)

-----------------------------------------------------------------------------
(* stl/write.rs: StlWriter.  The mesh is the list of its faces' vertex     *)
(* triples in iteration order (face i has handle i - 1); the output is the *)
(* list of the lines written; the writer w either takes every write or     *)
(* fails the first one.                                                    *)

DEFAULT_SOLID_NAME == "mesh"

Line(kw, args) == [kw |-> kw, args |-> args]

\* The `vertex` lines of one face: the loop stops with a panic at the first
\* vertex without a position.
VertexLines(tri, vertex_positions) ==
    LET has(k) == PropMapGet(vertex_positions, tri[k]).some
        n == IF ~has(1) THEN 0 ELSE IF ~has(2) THEN 1 ELSE IF ~has(3) THEN 2 ELSE 3
    IN [panicked |-> n < 3,
        out |-> [k \in 1..n |->
                   Line("vertex", SerializeVec(vertex_positions[tri[k]]))]]

\* The body of `for face in self.mesh.faces()`, from face i on.
RECURSIVE WriteFacets(_, _, _, _)
WriteFacets(self, i, out, normals) ==
    IF i > Len(self.mesh)
    THEN [panicked |-> FALSE, out |-> out, normals |-> normals]
    ELSE
      LET tri == self.mesh[i]
          n == FaceNormalsGet(self.face_normals, i - 1, tri, self.vertex_positions)
      IN IF n.panicked
         THEN [panicked |-> TRUE, out |-> out, normals |-> normals]
         ELSE
           LET head == out \o <<Line("facet normal", SerializeF32Vec(n.ret)),
                                Line("outer loop", <<>>)>>
               vs == VertexLines(tri, self.vertex_positions)
           IN IF vs.panicked
              THEN [panicked |-> TRUE, out |-> head \o vs.out,
                    normals |-> Append(normals, n.ret)]
              ELSE WriteFacets(self, i + 1,
                               head \o vs.out
                                    \o <<Line("endloop", <<>>), Line("endfacet", <<>>)>>,
                               Append(normals, n.ret))

\* StlWriter::tmp_new(format, mesh), with the maps given
tmp_new(format, mesh, vertex_positions, normal_map) ==
    [solid_name |-> DEFAULT_SOLID_NAME, format |-> format, mesh |-> mesh,
     vertex_positions |-> vertex_positions,
     face_normals |-> [kind |-> "FaceNormalMap", map |-> normal_map]]

\* StlWriter::calculate_normals
calculate_normals(self) ==
    [self EXCEPT !.face_normals = [kind |-> "CalculateFaceNormals"]]

\* MeshWriter::write: how it ends (Ok, Err or a panic), what it wrote and
\* the normals it got for the faces.
write(self, w) ==
    IF self.format = "Ascii"
    THEN
      IF w = "broken"
      THEN [outcome |-> "Err", out |-> <<>>, normals |-> <<>>]
      ELSE
        LET r == WriteFacets(self, 1, <<Line("solid", <<self.solid_name>>)>>, <<>>)
        IN IF r.panicked
           THEN [outcome |-> "panic", out |-> r.out, normals |-> r.normals]
           ELSE [outcome |-> "Ok",
                 out |-> Append(r.out, Line("endsolid", <<self.solid_name>>)),
                 normals |-> r.normals]
    ELSE [outcome |-> "panic", out |-> <<>>, normals |-> <<>>]

-----------------------------------------------------------------------------
(* The STL writer as a state machine: a client builds a writer for a mesh  *)
(* and calls write once.                                                   *)

MaxStlFaces == 2

StlFormats == {"Ascii", "Binary"}

StlVertices == {0, 1, 2}

StlPoints == {<<0, 0, 0>>, <<1, 0, 0>>, <<0, 1, 0>>, <<2, 0, 0>>}

StlNormals == {<<0, 0, 1>>, <<1, 0, 0>>}

StlTriangles == {<<0, 1, 2>>, <<2, 1, 0>>}

\* The meshes: up to MaxStlFaces triangles over the three vertices.
StlMeshes == UNION {[1..n -> StlTriangles] : n \in 0..MaxStlFaces}

\* The position maps: every vertex has a position or none.
StlPositionMaps ==
    UNION {[D -> StlPoints] : D \in SUBSET StlVertices}

\* The writers a client can build: tmp_new, then calculate_normals or not.
StlWriters ==
    {tmp_new(f, m, pm, [i \in 0..(Len(m) - 1) |-> n]) :
        f \in StlFormats, m \in StlMeshes, pm \in StlPositionMaps,
        n \in StlNormals}
    \cup
    {calculate_normals(tmp_new(f, m, pm, <<>>)) :
        f \in StlFormats, m \in StlMeshes, pm \in StlPositionMaps}

InitStl ==
    /\ MeshInit
    /\ castCall = [fn |-> "idle"]
    /\ opt = Idle
    /\ tool = Idle /\ xfer = Idle /\ ply = Idle
    /\ pmap = Idle /\ hnext = Idle
    /\ stl \in {[call |-> "pending", self |-> s, w |-> w] :
                   s \in StlWriters, w \in {"ok", "broken"}}

StlWrite ==
    /\ stl.call = "pending"
    /\ stl' = [call |-> "write", self |-> stl.self, w |-> stl.w,
               result |-> write(stl.self, stl.w)]
    /\ UNCHANGED notStl

NextStl == StlWrite

SpecStl == InitStl /\ [][NextStl]_vars

-----------------------------------------------------------------------------
(* The serializer as a state machine: one number is serialized.            *)

F32Values ==
    {Num(sig, exp) : sig \in -12..12, exp \in -2..2}

InitSer ==
    /\ MeshInit
    /\ castCall = [fn |-> "idle"]
    /\ opt = Idle
    /\ tool = Idle /\ xfer = Idle /\ ply = Idle
    /\ pmap = Idle /\ hnext = Idle
    /\ stl \in {[call |-> "pending_f32", v |-> v] : v \in F32Values}
               \cup {[call |-> "pending_i32", v |-> n] : n \in -12..12}

SerializeF32 ==
    /\ stl.call = "pending_f32"
    /\ stl' = [call |-> "serialize_f32", v |-> stl.v,
               token |-> serialize_f32(stl.v)]
    /\ UNCHANGED notStl

SerializeI32 ==
    /\ stl.call = "pending_i32"
    /\ stl' = [call |-> "serialize_i32", v |-> F32FromInt(stl.v),
               token |-> serialize_i32(stl.v)]
    /\ UNCHANGED notStl

NextSer ==
    \/ SerializeF32
    \/ SerializeI32

SpecSer == InitSer /\ [][NextSer]_vars

-----------------------------------------------------------------------------
(* tools/convert/src/main.rs.  A run is determined by its circumstances:   *)
(* the formats found for source and target and which of the fallible steps *)
(* succeed.  A step yields what it printed to stdout and either Ok, an     *)
(* error (its chain of messages, outermost first) or a panic.              *)

FileFormats == {"Ply", "Stl", "Other", "None"}

ToolOk(printed) == [end |-> "Ok", chain |-> <<>>, stdout |-> printed]
ToolErr(printed, chain) == [end |-> "Err", chain |-> chain, stdout |-> printed]
ToolPanic(printed) == [end |-> "panic", chain |-> <<>>, stdout |-> printed]

\* ResultExt::context: a new outermost message on an error.
Context(r, msg) ==
    IF r.end = "Err" THEN [r EXCEPT !.chain = <<msg>> \o r.chain] ELSE r

load_file(c) ==
    IF ~c.open_ok
    THEN ToolErr(<<>>, <<"failed to open file", "io error">>)
    ELSE IF c.source_format = "None"
    THEN ToolErr(<<>>, <<"couldn't determine source file format">>)
    ELSE IF c.source_format = "Other"
    THEN ToolErr(<<>>, <<"File format not supported (this is probably a bug)">>)
    ELSE IF ~c.header_ok
    THEN ToolErr(<<>>, <<"failed to reader header", "parse error">>)
    ELSE IF ~c.transfer_ok
    THEN ToolErr(<<"Source format", "Reading source ...">>, <<"read error">>)
    ELSE IF ~c.finish_ok
    THEN ToolErr(<<"Source format", "Reading source ...">>, <<"finish error">>)
    ELSE ToolOk(<<"Source format", "Reading source ...", " done">>)

write_file(c) ==
    IF c.target_format = "None"
    THEN ToolErr(<<>>, <<"couldn't determine target file format">>)
    ELSE IF ~c.encoding_ok
    THEN ToolErr(<<>>, <<"the encoding is not supported by the format">>)
    ELSE IF ~c.create_ok
    THEN ToolErr(<<"Target format">>, <<"io error">>)
    ELSE IF c.target_format = "Ply"
    THEN ToolPanic(<<"Target format">>)
    ELSE IF c.target_format = "Stl"
    THEN (IF c.write_ok
          THEN ToolOk(<<"Target format", "Writing mesh ...", " done">>)
          ELSE ToolErr(<<"Target format", "Writing mesh ...">>, <<"write error">>))
    ELSE ToolErr(<<"Target format">>, <<"File format not supported">>)

run(c) ==
    LET l == Context(load_file(c), "could not read source file")
    IN IF l.end # "Ok" THEN l
       ELSE
         LET info == l.stdout \o <<"Mesh information">>
             w == Context(write_file(c), "could not write target file")
         IN IF w.end = "Ok"
            THEN ToolOk(info \o w.stdout \o <<"Processing time">>)
            ELSE [w EXCEPT !.stdout = info \o w.stdout]

\* The lines main prints for an error: the error, then its causes.
ErrorReport(chain, backtrace) ==
    <<<<"An error occured: ", chain[1]>>>>
      \o [i \in 1..(Len(chain) - 1) |-> <<"  ... caused by: ", chain[i + 1]>>]
      \o (IF backtrace THEN <<<<"", "">>, <<"backtrace", "">>>> ELSE <<>>)

\* main, and the end of the process: a panic is reported on stderr by the
\* runtime and ends the process with code 101.
main(c) ==
    LET r == run(c)
        said == [i \in 1..Len(r.stdout) |-> <<r.stdout[i], "">>]
    IN CASE r.end = "Ok" -> [stdout |-> said, stderr |-> <<>>, code |-> 0]
         [] r.end = "Err" ->
              [stdout |-> said \o ErrorReport(r.chain, c.backtrace),
               stderr |-> <<>>, code |-> 1]
         [] r.end = "panic" ->
              [stdout |-> said,
               stderr |-> <<<<"thread 'main' panicked at ", "not yet implemented">>>>,
               code |-> 101]

Circumstances ==
    [open_ok : BOOLEAN, source_format : FileFormats, header_ok : BOOLEAN,
     transfer_ok : BOOLEAN, finish_ok : BOOLEAN,
     target_format : FileFormats, encoding_ok : BOOLEAN,
     create_ok : BOOLEAN, write_ok : BOOLEAN, backtrace : BOOLEAN]

InitTool ==
    /\ MeshInit
    /\ castCall = [fn |-> "idle"]
    /\ opt = Idle
    /\ stl = Idle /\ xfer = Idle /\ ply = Idle
    /\ pmap = Idle /\ hnext = Idle
    /\ tool \in {[call |-> "started", c |-> c] : c \in Circumstances}

ToolRun ==
    /\ tool.call = "started"
    /\ tool' = [call |-> "exited", c |-> tool.c, process |-> main(tool.c)]
    /\ UNCHANGED notTool

NextTool == ToolRun

SpecTool == InitTool /\ [][NextTool]_vars

-----------------------------------------------------------------------------
(* A transfer from a reader into a mesh sink (reader.transfer_to(&mut      *)
(* mesh) in load_file).  A file declares a vertex group and a face group   *)
(* in either order; a face record lists three distinct indices into the    *)
(* vertex group.  The reader delivers the vertex group before the face     *)
(* group that refers to it, each group's records in file order, and turns  *)
(* index i into the handle with index i.                                   *)

MaxFileFaces == 2

GroupOrders == {<<"vertex", "face">>, <<"face", "vertex">>}

FileTriangles(n) ==
    {<<a, b, c>> : a \in 0..(n - 1), b \in 0..(n - 1), c \in 0..(n - 1)}
        \ {t \in (0..(n - 1)) \X (0..(n - 1)) \X (0..(n - 1)) :
             t[1] = t[2] \/ t[1] = t[3] \/ t[2] = t[3]}

Files ==
    UNION {
        {[order |-> o, num_vertices |-> n, faces |-> fs] :
            o \in GroupOrders,
            fs \in UNION {[1..k -> FileTriangles(n)] : k \in 0..MaxFileFaces}} :
        n \in 0..MaxVertices}

\* Has the transfer delivered every record of a group?
GroupDone(x, kind) ==
    IF kind = "vertex" THEN x.nv = x.file.num_vertices
    ELSE x.nf = Len(x.file.faces)

\* A variant of NextGroup that delivers the groups in the order the file
\* declares them.
NextGroupDeclared(x) ==
    IF ~GroupDone(x, x.file.order[1]) THEN x.file.order[1]
    ELSE IF ~GroupDone(x, x.file.order[2]) THEN x.file.order[2]
    ELSE "none"

\* The group the next record is delivered from.
NextGroup(x) ==
    IF ~GroupDone(x, "vertex") THEN "vertex"
    ELSE IF ~GroupDone(x, "face") THEN "face"
    ELSE "none"

InitXfer ==
    /\ MeshInit
    /\ castCall = [fn |-> "idle"]
    /\ opt = Idle
    /\ stl = Idle /\ tool = Idle /\ ply = Idle
    /\ pmap = Idle /\ hnext = Idle
    /\ xfer \in {[call |-> "transfer_to", file |-> f, nv |-> 0, nf |-> 0] :
                    f \in Files}

\* The reader hands the next vertex record to the sink.
XferAddVertex ==
    /\ xfer.call = "transfer_to"
    /\ NextGroup(xfer) = "vertex"
    /\ LET r == add_vertex(vertices)
       IN /\ vertices' = r.vertices
          /\ last' = Op("add_vertex", FALSE, Some(r.ret))
          /\ mintedV' = Append(mintedV, r.ret)
    /\ xfer' = [xfer EXCEPT !.nv = @ + 1]
    /\ UNCHANGED <<faces, mintedF, positions>>
    /\ UNCHANGED notXfer

\* The reader hands the next face record to the sink; a panic of the sink
\* ends the transfer.
XferAddTriangle ==
    /\ xfer.call = "transfer_to"
    /\ NextGroup(xfer) = "face"
    /\ LET r == add_triangle(vertices, faces, xfer.file.faces[xfer.nf + 1])
       IN /\ faces' = r.faces
          /\ last' = Op("add_triangle", r.panicked, r.ret)
          /\ mintedF' = IF r.panicked THEN mintedF
                        ELSE Append(mintedF, r.ret.val)
          /\ xfer' = IF r.panicked
                     THEN [xfer EXCEPT !.call = "panicked"]
                     ELSE [xfer EXCEPT !.nf = @ + 1]
    /\ UNCHANGED <<vertices, mintedV, positions>>
    /\ UNCHANGED notXfer

\* mesh.finish()
XferFinish ==
    /\ xfer.call = "transfer_to"
    /\ NextGroup(xfer) = "none"
    /\ xfer' = [xfer EXCEPT !.call = "finished"]
    /\ UNCHANGED meshVars
    /\ UNCHANGED notXfer

NextXfer ==
    \/ XferAddVertex
    \/ XferAddTriangle
    \/ XferFinish

SpecXfer == InitXfer /\ [][NextXfer]_vars

-----------------------------------------------------------------------------
(* Raw PLY results (io::ply).  A writer emits a header and a tightly       *)
(* packed body in one of three encodings; Reader::into_raw_result parses   *)
(* a file into raw element groups: a definition (name, count, property     *)
(* definitions) and, per record, a byte buffer in host order with the      *)
(* offset of every property in it.  Integer values are whole numbers;      *)
(* a float or double value is written in thousandths (1942 is 1.942) and   *)
(* its IEEE bytes are taken from a table of the values in use.  ASCII      *)
(* tokens are decimal digit strings; white space between tokens is left    *)
(* out.                                                                    *)

Encodings == {"Ascii", "BinaryLittleEndian", "BinaryBigEndian"}

ScalarTypes ==
    {"Char", "UChar", "Short", "UShort", "Int", "UInt", "Float", "Double"}

ListLenTypes == {"UChar", "UShort", "UInt"}

\* Number of bytes of a scalar in a binary body.
ScalarLen(t) ==
    CASE t \in {"Char", "UChar"} -> 1
      [] t \in {"Short", "UShort"} -> 2
      [] t \in {"Int", "UInt", "Float"} -> 4
      [] t = "Double" -> 8

\* PropertyType::Scalar(t)
Scalar(t) == [kind |-> "Scalar", len_type |-> "None", scalar_type |-> t]

\* PropertyType::List { len_type, scalar_type }
List(lt, t) == [kind |-> "List", len_type |-> lt, scalar_type |-> t]

PropertyDef(name, ty) == [name |-> name, ty |-> ty]

\* Little-endian IEEE 754 bytes of the f32 values in use.
F32Bits(v) ==
    CASE v = 0 -> <<0, 0, 0, 0>>
      [] v = 3000 -> <<0, 0, 64, 64>>
      [] v = 5000 -> <<0, 0, 160, 64>>
      [] v = 8000 -> <<0, 0, 0, 65>>
      [] v = 1942 -> <<117, 147, 248, 63>>
      [] v = 152990 -> <<113, 253, 24, 67>>
      [] v = 7 -> <<66, 96, 229, 59>>
      [] v = -99123 -> <<250, 62, 198, 194>>

F32Known == {0, 3000, 5000, 8000, 1942, 152990, 7, -99123}

\* Little-endian IEEE 754 bytes of the f64 values in use.
F64Bits(v) ==
    CASE v = 930 -> <<195, 245, 40, 92, 143, 194, 237, 63>>
      [] v = 200 -> <<154, 153, 153, 153, 153, 153, 201, 63>>
      [] v = 300 -> <<51, 51, 51, 51, 51, 51, 211, 63>>

F64Known == {930, 200, 300}

Reverse(s) == [i \in 1..Len(s) |-> s[Len(s) + 1 - i]]

RECURSIVE Flatten(_)
Flatten(ss) == IF ss = <<>> THEN <<>> ELSE Head(ss) \o Flatten(Tail(ss))

\* The bytes of a value in host (little-endian) order; integers in two's
\* complement.
ToBytes(t, v) ==
    CASE t = "Float" -> F32Bits(v)
      [] t = "Double" -> F64Bits(v)
      [] OTHER -> [i \in 1..ScalarLen(t) |-> (v \div (256 ^ (i - 1))) % 256]

\* The value of a bit pattern that is not in the tables.
OtherFloat == 999999

RECURSIVE LeValue(_)
LeValue(b) == IF b = <<>> THEN 0 ELSE Head(b) + 256 * LeValue(Tail(b))

\* The value of host-order bytes.
FromBytes(t, b) ==
    CASE t = "Float" ->
            IF \E v \in F32Known : F32Bits(v) = b
            THEN CHOOSE v \in F32Known : F32Bits(v) = b
            ELSE OtherFloat
      [] t = "Double" ->
            IF \E v \in F64Known : F64Bits(v) = b
            THEN CHOOSE v \in F64Known : F64Bits(v) = b
            ELSE OtherFloat
      [] t \in {"UChar", "UShort", "UInt"} -> LeValue(b)
      [] OTHER ->
            IF b[Len(b)] >= 128
            THEN -LeValue([i \in 1..Len(b) |-> 255 - b[i]]) - 1
            ELSE LeValue(b)

RECURSIVE DigitsOf(_)
DigitsOf(n) == IF n < 10 THEN <<n>> ELSE Append(DigitsOf(n \div 10), n % 10)

RECURSIVE DigitsValue(_)
DigitsValue(d) ==
    IF d = <<>> THEN 0 ELSE 10 * DigitsValue(SubSeq(d, 1, Len(d) - 1)) + d[Len(d)]

\* The decimal text of a value: a sign, digits, and how many of the digits
\* follow the decimal point.
ToToken(t, v) ==
    [neg |-> v < 0,
     digits |-> DigitsOf(IF v < 0 THEN -v ELSE v),
     frac |-> IF t \in {"Float", "Double"} THEN 3 ELSE 0]

ParseToken(t, tok) ==
    IF tok.neg THEN -DigitsValue(tok.digits) ELSE DigitsValue(tok.digits)

\* A variant of FromEncoding without the per-field endian swap.
FromEncodingDirect(encoding, bytes) == bytes

\* Host-order bytes of a field of a binary body.
FromEncoding(encoding, bytes) ==
    IF encoding = "BinaryBigEndian" THEN Reverse(bytes) ELSE bytes

\* The bytes of a field in a binary body.
ToEncoding(encoding, bytes) ==
    IF encoding = "BinaryBigEndian" THEN Reverse(bytes) ELSE bytes

(* Writing.  The content handed to the writer is a sequence of element     *)
(* groups: a name, property definitions and one record of values per       *)
(* element, in handle order.                                               *)

WriteScalar(encoding, t, v) ==
    IF encoding = "Ascii" THEN <<ToToken(t, v)>>
    ELSE ToEncoding(encoding, ToBytes(t, v))

\* A list is its length, then its values.
WriteProp(encoding, ty, v) ==
    IF ty.kind = "Scalar" THEN WriteScalar(encoding, ty.scalar_type, v)
    ELSE WriteScalar(encoding, ty.len_type, Len(v))
            \o Flatten([i \in 1..Len(v) |->
                          WriteScalar(encoding, ty.scalar_type, v[i])])

WriteRecord(encoding, defs, rec) ==
    Flatten([i \in 1..Len(defs) |-> WriteProp(encoding, defs[i].ty, rec[i])])

WriteGroup(encoding, group) ==
    Flatten([k \in 1..Len(group.records) |->
                WriteRecord(encoding, group.property_defs, group.records[k])])

ElementDef(group) ==
    [name |-> group.name,
     count |-> Len(group.records),
     property_defs |-> group.property_defs]

PlyWriteToMemory(encoding, content) ==
    [format |-> encoding,
     elements |-> [g \in 1..Len(content) |-> ElementDef(content[g])],
     body |-> Flatten([g \in 1..Len(content) |->
                          WriteGroup(encoding, content[g])])]

(* Reading.  pos is the position of the next byte or token of the body.    *)
(* A read past the end of the body, or a list longer than what is left of  *)
(* the body, fails the read.                                               *)

ReadFailed == [ok |-> FALSE, bytes |-> <<>>, next |-> 0]

ReadScalar(encoding, t, input, pos) ==
    IF encoding = "Ascii"
    THEN IF pos > Len(input) THEN ReadFailed
         ELSE [ok |-> TRUE,
               bytes |-> ToBytes(t, ParseToken(t, input[pos])),
               next |-> pos + 1]
    ELSE IF pos + ScalarLen(t) - 1 > Len(input) THEN ReadFailed
         ELSE [ok |-> TRUE,
               bytes |-> FromEncoding(encoding,
                             SubSeq(input, pos, pos + ScalarLen(t) - 1)),
               next |-> pos + ScalarLen(t)]

RECURSIVE ReadScalars(_, _, _, _, _, _)
ReadScalars(encoding, t, n, input, pos, acc) ==
    LET unit == IF encoding = "Ascii" THEN 1 ELSE ScalarLen(t)
    IN IF n = 0 THEN [ok |-> TRUE, bytes |-> acc, next |-> pos]
       ELSE IF n > (Len(input) + 1 - pos) \div unit THEN ReadFailed
       ELSE LET s == ReadScalar(encoding, t, input, pos)
            IN ReadScalars(encoding, t, n - 1, input, s.next, acc \o s.bytes)

\* A variant of ListData that keeps the values only.
ListDataValuesOnly(len_bytes, value_bytes) == value_bytes

\* What the record's buffer keeps of a list.
ListData(len_bytes, value_bytes) == len_bytes \o value_bytes

ReadProp(encoding, ty, input, pos) ==
    IF ty.kind = "Scalar" THEN ReadScalar(encoding, ty.scalar_type, input, pos)
    ELSE LET l == ReadScalar(encoding, ty.len_type, input, pos)
         IN IF ~l.ok THEN ReadFailed
            ELSE LET vs == ReadScalars(encoding, ty.scalar_type,
                                       FromBytes(ty.len_type, l.bytes),
                                       input, l.next, <<>>)
                 IN IF ~vs.ok THEN ReadFailed
                    ELSE [ok |-> TRUE,
                          bytes |-> ListData(l.bytes, vs.bytes),
                          next |-> vs.next]

RawOffset(n) == [offset |-> n]

RECURSIVE ReadRecord(_, _, _, _, _, _, _)
ReadRecord(encoding, defs, input, pos, i, data, prop_infos) ==
    IF i > Len(defs)
    THEN [ok |-> TRUE,
          elem |-> [data |-> data, prop_infos |-> prop_infos],
          next |-> pos]
    ELSE LET p == ReadProp(encoding, defs[i].ty, input, pos)
         IN IF ~p.ok THEN [ok |-> FALSE]
            ELSE ReadRecord(encoding, defs, input, p.next, i + 1,
                            data \o p.bytes,
                            Append(prop_infos, RawOffset(Len(data))))

RECURSIVE ReadElements(_, _, _, _, _, _)
ReadElements(encoding, def, input, pos, k, elements) ==
    IF k > def.count
    THEN [ok |-> TRUE,
          group |-> [def |-> def, elements |-> elements],
          next |-> pos]
    ELSE LET r == ReadRecord(encoding, def.property_defs, input, pos, 1,
                             <<>>, <<>>)
         IN IF ~r.ok THEN [ok |-> FALSE]
            ELSE ReadElements(encoding, def, input, r.next, k + 1,
                              Append(elements, r.elem))

RECURSIVE ReadGroups(_, _, _, _)
ReadGroups(file, pos, g, groups) ==
    IF g > Len(file.elements)
    THEN [ok |-> TRUE, element_groups |-> groups]
    ELSE LET r == ReadElements(file.format, file.elements[g], file.body,
                               pos, 1, <<>>)
         IN IF ~r.ok THEN [ok |-> FALSE, element_groups |-> <<>>]
            ELSE ReadGroups(file, r.next, g + 1, Append(groups, r.group))

\* Reader::new(input)?.into_raw_result()
into_raw_result(file) == ReadGroups(file, 1, 1, <<>>)

\* The property at index i of a raw element, as elem.iter() yields it.
PropertyAt(def, elem, i) ==
    LET ty == def.property_defs[i].ty
        off == elem.prop_infos[i].offset
        field(at, t) == FromBytes(t, SubSeq(elem.data, at + 1, at + ScalarLen(t)))
    IN IF ty.kind = "Scalar"
       THEN [ty |-> ty.scalar_type, v |-> field(off, ty.scalar_type)]
       ELSE LET n == field(off, ty.len_type)
                first == off + ScalarLen(ty.len_type)
            IN [ty |-> ty.scalar_type \o "List",
                v |-> [j \in 1..n |->
                         field(first + (j - 1) * ScalarLen(ty.scalar_type),
                               ty.scalar_type)]]

Properties(def, elem) ==
    [i \in 1..Len(def.property_defs) |-> PropertyAt(def, elem, i)]

(* The contents written: the triangle of the tests, bare or with the       *)
(* extra properties foo, bar, baz and cats, with the vertex records in     *)
(* either order and every choice of bar lists.                             *)

PlyPositions ==
    {<<<<0, 0, 0>>, <<3000, 5000, 8000>>, <<1942, 152990, 7>>>>,
     <<<<1942, 152990, 7>>, <<3000, 5000, 8000>>, <<0, 0, 0>>>>}

BarLists == {<<>>, <<-1>>, <<3, 8>>}

PositionDefs ==
    <<PropertyDef("x", Scalar("Float")),
      PropertyDef("y", Scalar("Float")),
      PropertyDef("z", Scalar("Float"))>>

VertexIndicesDef == PropertyDef("vertex_indices", List("UChar", "UInt"))

\* triangle_mesh()
triangle_mesh(pos) ==
    <<[name |-> "vertex",
       property_defs |-> PositionDefs,
       records |-> pos],
      [name |-> "face",
       property_defs |-> <<VertexIndicesDef>>,
       records |-> << << <<0, 1, 2>> >> >>]>>

\* triangle_with_extra_props(encoding), before writing
triangle_with_extra_props(pos, bar) ==
    <<[name |-> "vertex",
       property_defs |->
           PositionDefs \o
           <<PropertyDef("foo[0]", Scalar("Double")),
             PropertyDef("foo[1]", Scalar("Double")),
             PropertyDef("foo[2]", Scalar("Double")),
             PropertyDef("bar", List("UInt", "Char")),
             PropertyDef("baz", Scalar("UShort"))>>,
       records |-> [h \in 1..3 |->
                      pos[h] \o <<930, 200, 300, bar[h], 3 * (h - 1)>>]],
      [name |-> "face",
       property_defs |->
           <<VertexIndicesDef, PropertyDef("cats", Scalar("Float"))>>,
       records |-> << << <<0, 1, 2>>, -99123 >> >>]>>

PlyContents ==
    {triangle_mesh(pos) : pos \in PlyPositions}
        \cup {triangle_with_extra_props(pos, bar) :
                pos \in PlyPositions, bar \in [1..3 -> BarLists]}

(* The writer (Serializer::into_writer) holds the mesh and the property    *)
(* maps attached to it.  A map is a function from handles to values; its   *)
(* element type chooses the PLY type, its shape how many properties it     *)
(* becomes: a position is x, y, z; an array of n is name[0] .. name[n-1];  *)
(* a slice is a list with a uint length.                                   *)

\* The PLY type of a map's element type.
PlyType(elem) ==
    CASE elem = "i8" -> "Char"
      [] elem = "u8" -> "UChar"
      [] elem = "i16" -> "Short"
      [] elem = "u16" -> "UShort"
      [] elem = "i32" -> "Int"
      [] elem = "u32" -> "UInt"
      [] elem = "f32" -> "Float"
      [] elem = "f64" -> "Double"

Attachment(name, shape, elem, map) ==
    [name |-> name, shape |-> shape, elem |-> elem, map |-> map]

\* The mesh of the tests' mesh! blocks: three vertices and the face
\* [v0, v1, v2].
PlyMesh ==
    LET v1 == add_vertex(VecMapEmpty).vertices
        v2 == add_vertex(v1).vertices
        v3 == add_vertex(v2).vertices
    IN [vertices |-> v3,
        faces |-> add_triangle(v3, VecMapEmpty, <<0, 1, 2>>).faces]

\* Serializer::new(encoding).into_writer(&mesh, &positions)
into_writer(mesh, position_map) ==
    [mesh |-> mesh,
     vertex_props |-> <<Attachment("position", "position", "f32", position_map)>>,
     face_props |-> <<>>]

add_vertex_prop(w, a) == [w EXCEPT !.vertex_props = Append(@, a)]

add_face_prop(w, a) == [w EXCEPT !.face_props = Append(@, a)]

IndexText == <<"0", "1", "2">>

\* The length of the arrays an array-valued map holds.
ArrayLen(a) == Len(a.map[CHOOSE h \in DOMAIN a.map : TRUE])

\* The property definitions an attached map becomes.
AttachmentDefs(a) ==
    CASE a.shape = "position" ->
            <<PropertyDef("x", Scalar(PlyType(a.elem))),
              PropertyDef("y", Scalar(PlyType(a.elem))),
              PropertyDef("z", Scalar(PlyType(a.elem)))>>
      [] a.shape = "scalar" -> <<PropertyDef(a.name, Scalar(PlyType(a.elem)))>>
      [] a.shape = "slice" -> <<PropertyDef(a.name, List("UInt", PlyType(a.elem)))>>
      [] a.shape = "array" ->
            [i \in 1..ArrayLen(a) |->
                PropertyDef(a.name \o "[" \o IndexText[i] \o "]",
                            Scalar(PlyType(a.elem)))]

\* The fields an attached map gives to the record of handle h.
AttachmentFields(a, h) ==
    CASE a.shape = "scalar" -> <<a.map[h]>>
      [] a.shape = "slice" -> <<a.map[h]>>
      [] OTHER -> a.map[h]

\* A variant of WriterOrder that visits the handles from the last one down.
WriterOrderDescending(handles) == Reverse(handles)

\* The order in which the writer visits the handles the mesh yields.
WriterOrder(handles) == handles

\* What the writer emits: a vertex group, then a face group; the records
\* of a group in the order the mesh yields its handles.
WriterContent(w) ==
    LET vs == WriterOrder(Vertices(w.mesh.vertices))
        fs == WriterOrder(Faces(w.mesh.faces))
    IN <<[name |-> "vertex",
          property_defs |->
              Flatten([i \in 1..Len(w.vertex_props) |->
                          AttachmentDefs(w.vertex_props[i])]),
          records |->
              [k \in 1..Len(vs) |->
                  Flatten([i \in 1..Len(w.vertex_props) |->
                              AttachmentFields(w.vertex_props[i], vs[k])])]],
         [name |-> "face",
          property_defs |->
              <<VertexIndicesDef>> \o
              Flatten([i \in 1..Len(w.face_props) |->
                          AttachmentDefs(w.face_props[i])]),
          records |->
              [k \in 1..Len(fs) |->
                  <<vertices_around_triangle(w.mesh.faces, fs[k])>> \o
                  Flatten([i \in 1..Len(w.face_props) |->
                              AttachmentFields(w.face_props[i], fs[k])])]]>>

\* The positions map of a mesh! block.
PositionsMap(pos) == [h \in 0..2 |-> pos[h + 1]]

\* The writer of write_triangle_*.
TriangleWriter(pos) == into_writer(PlyMesh, PositionsMap(pos))

\* The writer of triangle_with_extra_props.
ExtraPropsWriter(pos, bar) ==
    add_face_prop(
        add_vertex_prop(
            add_vertex_prop(
                add_vertex_prop(
                    into_writer(PlyMesh, PositionsMap(pos)),
                    Attachment("foo", "array", "f64", [h \in 0..2 |-> <<930, 200, 300>>])),
                Attachment("bar", "slice", "i8", [h \in 0..2 |-> bar[h + 1]])),
            Attachment("baz", "scalar", "u16", [h \in 0..2 |-> 3 * h])),
        Attachment("cats", "scalar", "f32", [h \in 0..0 |-> -99123]))

PlyWriters ==
    {TriangleWriter(pos) : pos \in PlyPositions}
        \cup {ExtraPropsWriter(pos, bar) :
                pos \in PlyPositions, bar \in [1..3 -> BarLists]}

InitPly ==
    /\ MeshInit
    /\ castCall = [fn |-> "idle"]
    /\ opt = Idle
    /\ stl = Idle /\ tool = Idle /\ xfer = Idle
    /\ pmap = Idle /\ hnext = Idle
    /\ ply \in {[call |-> "ply",
                 writer |-> w,
                 content |-> WriterContent(w),
                 files |-> [e \in Encodings |-> <<>>],
                 raw |-> [e \in Encodings |-> <<>>]] : w \in PlyWriters}

\* Serializer::new(encoding).into_writer(..).write_to_memory()
PlyWrite ==
    /\ ply.call = "ply"
    /\ \E e \in Encodings :
          /\ ply.files[e] = <<>>
          /\ ply' = [ply EXCEPT
                       !.files[e] = <<PlyWriteToMemory(e, ply.content)>>]
    /\ UNCHANGED notPly

\* Reader::new(input)?.into_raw_result()
PlyRead ==
    /\ ply.call = "ply"
    /\ \E e \in Encodings :
          /\ ply.files[e] # <<>>
          /\ ply.raw[e] = <<>>
          /\ ply' = [ply EXCEPT
                       !.raw[e] = <<into_raw_result(ply.files[e][1])>>]
    /\ UNCHANGED notPly

NextPly ==
    \/ PlyWrite
    \/ PlyRead

SpecPly == InitPly /\ [][NextPly]_vars

-----------------------------------------------------------------------------
(* Property maps (map/mod.rs).  A PropMap gives get(handle); the maps      *)
(* here are a hash map and a dense VecMap, which are stores that can be    *)
(* changed, and the computed ConstMap and EmptyMap.  map_value wraps a     *)
(* map and a function into a Mapper.                                       *)

PropHandles == 0..2

PropValues == {1, 2}

\* The functions handed to map_value.
Mappers == [PropValues -> {10, 20}]

MapKinds == {"HashMap", "VecMap", "ConstMap", "EmptyMap"}

StoreKinds == {"HashMap", "VecMap"}

\* PropStoreMut::empty()
Store_empty(kind) ==
    [kind |-> kind,
     rep |-> IF kind = "HashMap" THEN [h \in PropHandles |-> None]
             ELSE VecMapEmpty]

ConstMap(v) == [kind |-> "ConstMap", rep |-> v]

EmptyMap == [kind |-> "EmptyMap", rep |-> 0]

\* PropMap::get
Store_get(s, h) ==
    CASE s.kind = "HashMap" -> s.rep[h]
      [] s.kind = "VecMap" ->
            IF VecMapContainsHandle(s.rep, h) THEN Some(VecMapIndex(s.rep, h))
            ELSE None
      [] s.kind = "ConstMap" -> Some(s.rep)
      [] s.kind = "EmptyMap" -> None

\* A variant of contains_handle that compares the handle's index with the
\* number of properties.
Store_contains_handle_by_count(s, h) ==
    h < Cardinality({g \in PropHandles : Store_get(s, g).some})

\* PropMap::contains_handle: self.get(handle).is_some()
Store_contains_handle(s, h) == Store_get(s, h).some

\* PropMap::map_value
map_value(s, f) == [inner |-> s, mapper |-> f]

\* Mapper's PropMap::get: the function applied to what the inner map gives.
Mapper_get(m, h) ==
    LET inner == Store_get(m.inner, h)
    IN IF inner.some THEN Some(m.mapper[inner.val]) ELSE None

\* Mapper's PropMap::contains_handle (the default method).
Mapper_contains_handle(m, h) == Mapper_get(m, h).some

\* VecMap::insert: the array grows up to the handle's index when needed.
VecMapInsert(m, h, v) ==
    IF h < Len(m.slots)
    THEN [slots |-> [m.slots EXCEPT ![h + 1] = Occupied(v)],
          num_elements |-> IF m.slots[h + 1].used THEN m.num_elements
                           ELSE m.num_elements + 1]
    ELSE [slots |-> m.slots \o [i \in 1..(h - Len(m.slots)) |-> Vacant]
                            \o <<Occupied(v)>>,
          num_elements |-> m.num_elements + 1]

\* A variant of insert that keeps a property that is already there.
Store_insert_if_absent(s, h, p) ==
    IF Store_get(s, h).some THEN [store |-> s, ret |-> Store_get(s, h)]
    ELSE [store |-> [s EXCEPT !.rep = IF s.kind = "HashMap"
                                       THEN [s.rep EXCEPT ![h] = Some(p)]
                                       ELSE VecMapInsert(s.rep, h, p)],
          ret |-> None]

\* PropStoreMut::insert
Store_insert(s, h, p) ==
    [store |-> [s EXCEPT !.rep = IF s.kind = "HashMap"
                                 THEN [s.rep EXCEPT ![h] = Some(p)]
                                 ELSE VecMapInsert(s.rep, h, p)],
     ret |-> Store_get(s, h)]

\* PropStoreMut::remove
Store_remove(s, h) ==
    [store |-> [s EXCEPT !.rep = IF s.kind = "HashMap"
                                 THEN [s.rep EXCEPT ![h] = None]
                                 ELSE VecMapRemove(s.rep, h)],
     ret |-> Store_get(s, h)]

InitMap ==
    /\ MeshInit
    /\ castCall = [fn |-> "idle"]
    /\ opt = Idle
    /\ stl = Idle /\ tool = Idle /\ xfer = Idle /\ ply = Idle
    /\ hnext = Idle
    /\ pmap \in {[store |-> s, last |-> [op |-> "empty"]] :
                    s \in {Store_empty(k) : k \in StoreKinds}
                          \cup {ConstMap(v) : v \in PropValues}
                          \cup {EmptyMap}}

MapInsert ==
    /\ pmap # Idle
    /\ pmap.store.kind \in StoreKinds
    /\ \E h \in PropHandles, p \in PropValues :
          LET r == Store_insert(pmap.store, h, p)
          IN pmap' = [store |-> r.store,
                      last |-> [op |-> "insert", h |-> h, p |-> p,
                                ret |-> r.ret, before |-> pmap.store]]
    /\ UNCHANGED notPMap

MapRemove ==
    /\ pmap # Idle
    /\ pmap.store.kind \in StoreKinds
    /\ \E h \in PropHandles :
          LET r == Store_remove(pmap.store, h)
          IN pmap' = [store |-> r.store,
                      last |-> [op |-> "remove", h |-> h,
                                ret |-> r.ret, before |-> pmap.store]]
    /\ UNCHANGED notPMap

\* map.map_value(f), then get and contains_handle on both maps.
MapMapValue ==
    /\ pmap # Idle
    /\ \E h \in PropHandles, f \in Mappers :
          LET mapped == map_value(pmap.store, f)
          IN pmap' = [store |-> pmap.store,
                      last |-> [op |-> "map_value", h |-> h, f |-> f,
                                get |-> Store_get(pmap.store, h),
                                contains |-> Store_contains_handle(pmap.store, h),
                                mapped_get |-> Mapper_get(mapped, h),
                                mapped_contains |->
                                    Mapper_contains_handle(mapped, h)]]
    /\ UNCHANGED notPMap

NextMap ==
    \/ MapInsert
    \/ MapRemove
    \/ MapMapValue

SpecMap == InitMap /\ [][NextMap]_vars

-----------------------------------------------------------------------------
(* HSizeExt::next (handle.rs): self + 1 on a u32.  An overflowing          *)
(* addition panics in a build with overflow checks (every debug build, a   *)
(* release build that asks for them) and wraps around in a build without.  *)

Builds ==
    {[profile |-> "debug", overflow_checks |-> TRUE],
     [profile |-> "release", overflow_checks |-> FALSE],
     [profile |-> "release", overflow_checks |-> TRUE]}

\* v + 1 on little-endian bytes: the sum modulo 2^(8 * Len(v)) and whether
\* the addition overflowed.
RECURSIVE AddOne(_)
AddOne(v) ==
    IF v = <<>> THEN [sum |-> <<>>, overflow |-> TRUE]
    ELSE IF Head(v) < 255
    THEN [sum |-> <<Head(v) + 1>> \o Tail(v), overflow |-> FALSE]
    ELSE LET rest == AddOne(Tail(v))
         IN [sum |-> <<0>> \o rest.sum, overflow |-> rest.overflow]

\* A variant of next that wraps around in every build.
hsize_next_wrapping(i, build) == [panicked |-> FALSE, ret |-> AddOne(i).sum]

\* HSizeExt::next for hsize
hsize_next(i, build) ==
    LET r == AddOne(i)
    IN IF r.overflow /\ build.overflow_checks
       THEN [panicked |-> TRUE, ret |-> i]
       ELSE [panicked |-> FALSE, ret |-> r.sum]

InitNext ==
    /\ MeshInit
    /\ castCall = [fn |-> "idle"]
    /\ opt = Idle
    /\ stl = Idle /\ tool = Idle /\ xfer = Idle /\ ply = Idle
    /\ pmap = Idle
    /\ hnext \in {[call |-> "pending", i |-> i, build |-> b] :
                     i \in HSizeValues, b \in Builds}

HNext ==
    /\ hnext.call = "pending"
    /\ hnext' = [call |-> "next", i |-> hnext.i, build |-> hnext.build,
                 result |-> hsize_next(hnext.i, hnext.build)]
    /\ UNCHANGED notHNext

NextNext == HNext

SpecNext == InitNext /\ [][NextNext]_vars

-----------------------------------------------------------------------------
(* ds/tests.rs, the tests of meshes that support several blades around a   *)
(* vertex: seven vertices va..vg (handles 0..6) and faces added between    *)
(* them in any order.                                                      *)

\* The vertices va, vb, vc, vd, ve, vf, vg of vertex_with_three_blades.
BladeVertexCount == 7

MaxBladeFaces == 4

RECURSIVE WithVertices(_)
WithVertices(n) ==
    IF n = 0 THEN VecMapEmpty ELSE add_vertex(WithVertices(n - 1)).vertices

\* The faces the tests add: the fans around va, the second face of
\* vertex_with_two_blades, and the faces of connect_two_blades_around_vertex
\* that join two fans.  The last two are calls the assertions reject: a
\* repeated vertex, and a handle the mesh has not handed out.
BladeFans == {<<0, 2, 1>>, <<0, 4, 3>>, <<0, 6, 5>>, <<0, 3, 4>>}
BladeConnectors ==
    {<<3, 2, 0>>, <<5, 2, 0>>, <<1, 4, 0>>, <<1, 6, 0>>, <<0, 3, 6>>,
     <<4, 0, 5>>}
BladeRejected == {<<0, 0, 1>>, <<0, 1, BladeVertexCount>>}
BladeTriangles == BladeFans \cup BladeConnectors \cup BladeRejected

InitBlade ==
    /\ vertices = WithVertices(BladeVertexCount)
    /\ faces = VecMapEmpty
    /\ last = Op("empty", FALSE, None)
    /\ mintedV = [i \in 1..BladeVertexCount |-> i - 1]
    /\ mintedF = <<>>
    /\ positions = <<>>
    /\ castCall = [fn |-> "idle"]
    /\ opt = Idle
    /\ stl = Idle /\ tool = Idle /\ xfer = Idle /\ ply = Idle
    /\ pmap = Idle /\ hnext = Idle

BladeAddTriangle ==
    /\ VecMapNextPushHandle(faces) < MaxBladeFaces
    /\ \E tri \in BladeTriangles :
          LET r == add_triangle(vertices, faces, tri)
          IN /\ faces' = r.faces
             /\ last' = [op |-> "add_triangle", panicked |-> r.panicked,
                         ret |-> r.ret, tri |-> tri]
             /\ mintedF' = IF r.panicked THEN mintedF
                           ELSE Append(mintedF, r.ret.val)
    /\ UNCHANGED <<vertices, mintedV, positions>>
    /\ UNCHANGED notMesh

NextBlade == BladeAddTriangle

SpecBlade == InitBlade /\ [][NextBlade]_vars

-----------------------------------------------------------------------------
(* split_face on meshes with several faces: three vertices to begin with,  *)
(* faces added between the vertices at hand, removed and split, in any     *)
(* order and with any face handle.                                         *)

MaxSplitVertices == 5

MaxSplitFaces == 5

SplitFaceIdx == 0..MaxSplitFaces

\* The faces a client adds: the triangle in both orientations, and a face
\* at the first vertex split_face mints (rejected before that).
SplitTriangles == {<<0, 1, 2>>, <<2, 1, 0>>, <<0, 1, 3>>}

InitSplit ==
    /\ vertices = WithVertices(3)
    /\ faces = VecMapEmpty
    /\ last = Op("empty", FALSE, None)
    /\ mintedV = <<0, 1, 2>>
    /\ mintedF = <<>>
    /\ positions = <<>>
    /\ castCall = [fn |-> "idle"]
    /\ opt = Idle
    /\ stl = Idle /\ tool = Idle /\ xfer = Idle /\ ply = Idle
    /\ pmap = Idle /\ hnext = Idle

SplitAddTriangle ==
    /\ VecMapNextPushHandle(faces) < MaxSplitFaces
    /\ \E tri \in SplitTriangles :
          LET r == add_triangle(vertices, faces, tri)
          IN /\ faces' = r.faces
             /\ last' = Op("add_triangle", r.panicked, r.ret)
             /\ mintedF' = IF r.panicked THEN mintedF
                           ELSE Append(mintedF, r.ret.val)
    /\ UNCHANGED <<vertices, mintedV, positions>>
    /\ UNCHANGED notMesh

SplitRemoveFace ==
    /\ \E f \in SplitFaceIdx :
          /\ faces' = remove_face(faces, f)
          /\ last' = Op("remove_face", FALSE, None)
    /\ UNCHANGED <<vertices, mintedV, mintedF, positions>>
    /\ UNCHANGED notMesh

\* split_face(f) with any f; the call is remembered with its argument.
SplitSplitFace ==
    /\ VecMapNextPushHandle(vertices) < MaxSplitVertices
    /\ VecMapNextPushHandle(faces) + 2 <= MaxSplitFaces
    /\ \E f \in SplitFaceIdx :
          LET r == split_face(vertices, faces, f)
              n == VecMapNextPushHandle(faces)
          IN /\ vertices' = r.vertices
             /\ faces' = r.faces
             /\ last' = [op |-> "split_face", panicked |-> r.panicked,
                         ret |-> r.ret, face |-> f]
             /\ mintedV' = IF r.panicked THEN mintedV
                           ELSE Append(mintedV, r.ret.val)
             /\ mintedF' = IF r.panicked THEN mintedF
                           ELSE mintedF \o <<n, HSizeNext(n)>>
    /\ UNCHANGED positions
    /\ UNCHANGED notMesh

NextSplit ==
    \/ SplitAddTriangle
    \/ SplitRemoveFace
    \/ SplitSplitFace

SpecSplit == InitSplit /\ [][NextSplit]_vars

-----------------------------------------------------------------------------
(* tools/convert/src/main.rs, step by step, with the target path on the    *)
(* file system.  The steps of run in the order in which load_file and      *)
(* write_file take them; a step that fails ends the run.                   *)

\* A variant of ConvertSteps in which the target file is opened together
\* with the source file.
ConvertStepsCreateEarly ==
    <<"open", "create", "format", "header", "transfer_to", "finish",
      "target_format", "encoding", "write">>

ConvertSteps ==
    <<"open", "format", "header", "transfer_to", "finish",
      "target_format", "encoding", "create", "write">>

\* The step after the i-th one.
StepAfter(i) == IF i < Len(ConvertSteps) THEN ConvertSteps[i + 1] ELSE "exited"

StepIndex(step) == CHOOSE i \in DOMAIN ConvertSteps : ConvertSteps[i] = step

\* How a step ends under the circumstances c.
StepEnd(step, c) ==
    CASE step = "open" -> IF c.open_ok THEN "Ok" ELSE "Err"
      [] step = "format" -> IF c.source_format # "None" THEN "Ok" ELSE "Err"
      [] step = "header" ->
            IF c.source_format \in {"Ply", "Stl"} /\ c.header_ok
            THEN "Ok" ELSE "Err"
      [] step = "transfer_to" -> IF c.transfer_ok THEN "Ok" ELSE "Err"
      [] step = "finish" -> IF c.finish_ok THEN "Ok" ELSE "Err"
      [] step = "target_format" ->
            IF c.target_format # "None" THEN "Ok" ELSE "Err"
      [] step = "encoding" -> IF c.encoding_ok THEN "Ok" ELSE "Err"
      [] step = "create" -> IF c.create_ok THEN "Ok" ELSE "Err"
      [] step = "write" ->
            CASE c.target_format = "Ply" -> "panic"
              [] c.target_format = "Stl" ->
                    IF c.write_ok THEN "Ok" ELSE "Err"
              [] OTHER -> "Err"

\* The target path: absent, or a file with its old contents, an empty file
\* (just created or truncated), the written mesh, or a part of it.
TargetStates == {"absent", "old"}

\* File::create: a new empty file, or the existing one truncated.
FileCreate(path) == "empty"

\* What a step does to the target path.
TargetAfter(step, c, path) ==
    CASE step = "create" /\ c.create_ok -> FileCreate(path)
      [] step = "write" /\ c.target_format = "Stl" ->
            IF c.write_ok THEN "written" ELSE "partial"
      [] OTHER -> path

InitConvert ==
    /\ MeshInit
    /\ castCall = [fn |-> "idle"]
    /\ opt = Idle
    /\ stl = Idle /\ xfer = Idle /\ ply = Idle
    /\ pmap = Idle /\ hnext = Idle
    /\ tool \in {[call |-> "convert", c |-> c, pc |-> ConvertSteps[1],
                  steps |-> <<>>, before |-> t, target |-> t,
                  end |-> "running", failed |-> "none"] :
                    c \in Circumstances, t \in TargetStates}

\* The step the run is at is taken.
ConvertStep(step) ==
    /\ tool.call = "convert"
    /\ tool.pc = step
    /\ LET e == StepEnd(step, tool.c)
       IN tool' =
            [tool EXCEPT
               !.target = TargetAfter(step, tool.c, tool.target),
               !.steps = IF e = "Ok" THEN Append(tool.steps, step)
                         ELSE tool.steps,
               !.failed = IF e = "Ok" THEN "none" ELSE step,
               !.pc = IF e = "Ok" THEN StepAfter(StepIndex(step))
                      ELSE "exited",
               !.end = IF e = "Ok" /\ StepAfter(StepIndex(step)) # "exited"
                       THEN "running" ELSE e]
    /\ UNCHANGED notTool

ConvertOpen == ConvertStep("open")
ConvertFormat == ConvertStep("format")
ConvertHeader == ConvertStep("header")
ConvertTransfer == ConvertStep("transfer_to")
ConvertFinish == ConvertStep("finish")
ConvertTargetFormat == ConvertStep("target_format")
ConvertEncoding == ConvertStep("encoding")
ConvertCreate == ConvertStep("create")
ConvertWrite == ConvertStep("write")

NextConvert ==
    \/ ConvertOpen
    \/ ConvertFormat
    \/ ConvertHeader
    \/ ConvertTransfer
    \/ ConvertFinish
    \/ ConvertTargetFormat
    \/ ConvertEncoding
    \/ ConvertCreate
    \/ ConvertWrite

SpecConvert == InitConvert /\ [][NextConvert]_vars

-----------------------------------------------------------------------------
(* Properties of SharedVertexMesh.                                         *)

ContainedFaces == {f \in FaceIdx : contains_face(faces, f)}
ContainedVertices == {v \in VertexIdx : contains_vertex(vertices, v)}

ToSet(seq) == {seq[i] : i \in DOMAIN seq}

Increasing(seq) == \A i, j \in DOMAIN seq : i < j => seq[i] < seq[j]

\* C1: after any sequence of mutator calls, every vertex handle stored in a
\* contained face satisfies contains_vertex.
C1_FaceVertexClosure ==
    \A f \in ContainedFaces :
        \A i \in 1..3 :
            contains_vertex(vertices, vertices_around_triangle(faces, f)[i])

\* C1 witness: a face was split, so the mesh holds faces that name the
\* centre vertex minted by the split.
C1_Witness ==
    /\ last.op = "split_face"
    /\ ~last.panicked
    /\ num_faces(faces) >= 3

\* C2: in every reachable state the three vertices of each contained face
\* are pairwise distinct, so check_integrity does not panic.
C2_NoRepeatedVertex ==
    /\ \A f \in ContainedFaces :
          LET t == vertices_around_triangle(faces, f)
          IN t[1] # t[2] /\ t[1] # t[3] /\ t[2] # t[3]
    /\ check_integrity(vertices, faces)

\* C3: remove_all_vertices panics and changes nothing while the mesh has
\* faces; without faces it leaves a mesh with no vertex at all.
C3_RemoveAllVertices ==
    [][last'.op = "remove_all_vertices" =>
         IF num_faces(faces) > 0
         THEN /\ last'.panicked
              /\ vertices' = vertices
              /\ faces' = faces
         ELSE /\ ~last'.panicked
              /\ faces' = faces
              /\ num_vertices(vertices') = 0
              /\ \A h \in VertexIdx : ~contains_vertex(vertices', h)]_vars

\* C3 witness: remove_all_vertices was refused on a mesh with faces.
C3_Witness ==
    /\ last.op = "remove_all_vertices"
    /\ last.panicked
    /\ num_faces(faces) > 0
    /\ num_vertices(vertices) = MaxVertices

C5_KthHandle ==
    /\ \A k \in DOMAIN mintedV : mintedV[k] = k - 1
    /\ \A k \in DOMAIN mintedF : mintedF[k] = k - 1
    /\ (last.op \in {"add_vertex", "add_triangle"} =>
          last.ret = Some(IF last.op = "add_vertex" THEN Len(mintedV) - 1
                          ELSE Len(mintedF) - 1))

\* C5 witness: three vertices with different property values and two faces
\* have been added.
C5_Witness ==
    /\ Len(mintedV) = 3
    /\ Len(mintedF) = 2
    /\ positions[0] # positions[1]
    /\ positions[1] = positions[2]

\* C6: num_vertices is the number of contained vertex handles, which are
\* exactly the handles vertices() yields (each once); likewise for faces;
\* the empty mesh contains nothing and the handle after the last minted
\* one is never contained.
C6_CountsAgree ==
    /\ num_vertices(vertices) = Cardinality(ContainedVertices)
    /\ ToSet(Vertices(vertices)) = ContainedVertices
    /\ Len(Vertices(vertices)) = num_vertices(vertices)
    /\ num_faces(faces) = Cardinality(ContainedFaces)
    /\ ToSet(Faces(faces)) = ContainedFaces
    /\ Len(Faces(faces)) = num_faces(faces)
    /\ ~contains_vertex(vertices, VecMapNextPushHandle(vertices))
    /\ ~contains_face(faces, VecMapNextPushHandle(faces))
    /\ (last.op = "empty" =>
          /\ num_vertices(vertices) = 0
          /\ num_faces(faces) = 0
          /\ ContainedVertices = {}
          /\ ContainedFaces = {})

\* C6 witness: one of two faces was removed, so the face array is longer
\* than the number of faces.
C6_Witness ==
    /\ last.op = "remove_face"
    /\ num_faces(faces) = 1
    /\ VecMapNextPushHandle(faces) = 2
    /\ num_vertices(vertices) = 3

-----------------------------------------------------------------------------
(* Properties of the cast module.                                          *)

\* C7: for every pair of primitive types and every rigor, the try_* function
\* of the rigor returns Some exactly when the cast table permits the pair at
\* that rigor, and None otherwise (so try_lossless from f64 to f32 is None).
C7_TryMatchesTable ==
    (castCall.fn \in TryFunctions /\ castCall.done) =>
        (castCall.result.some
            <=> TablePermits(castCall.rigor, castCall.src, castCall.dst))

C7_Witness ==
    /\ castCall.fn = "try_lossless"
    /\ castCall.done
    /\ castCall.src = "f64"
    /\ castCall.dst = "f32"
    /\ castCall.result = None

\* C8: whether a try_* cast returns Some or None does not depend on the
\* value: the same call with any other value of the source type returns
\* Some exactly when this one did.
C8_ValueIndependent ==
    (castCall.fn \in TryFunctions /\ castCall.done) =>
        \A a \in Values(castCall.src) :
            TryCall(castCall.fn, a, castCall.src, castCall.dst).some
                = castCall.result.some

C8_Witness ==
    /\ castCall.fn = "try_lossless"
    /\ castCall.done
    /\ castCall.src = "u16"
    /\ castCall.dst = "u8"
    /\ castCall.value = <<1, 0>>
    /\ castCall.result = None
    /\ <<0, 1>> \in Values("u16")

\* The number an integer value stands for, as a two's complement string one
\* byte wider than the widest type, so that values of different types
\* compare.
MathValue(v, t) ==
    [i \in 1..(1 + Bytes("i128")) |->
        IF i <= Len(v) THEN v[i]
        ELSE IF Signed(t) /\ v[Len(v)] >= 128 THEN 255 ELSE 0]

\* a (of type s) < b (of type d) as numbers
MathLess(a, s, b, d) ==
    LET key(x) == [i \in 1..Len(x) |->
                     LET byte == x[Len(x) + 1 - i]
                     IN IF i = 1 THEN (byte + 128) % 256 ELSE byte]
    IN LexLess(key(MathValue(a, s)), key(MathValue(b, d)))

\* C9: clamping::<Src, Dst>(v) is v when v lies within the limits of Dst,
\* the upper limit of Dst when v is above it and the lower limit of Dst when
\* v is below it, for every integer pair with a clamping cast.
C9_ClampingClamps ==
    (castCall.fn = "clamping" /\ castCall.done) =>
        LET v == castCall.value
            s == castCall.src
            d == castCall.dst
            r == castCall.result
        IN /\ Len(r) = Bytes(d)
           /\ IF MathLess(max_value(d), d, v, s) THEN r = max_value(d)
              ELSE IF MathLess(v, s, min_value(d), d) THEN r = min_value(d)
              ELSE MathValue(r, d) = MathValue(v, s)

C9_Witness ==
    /\ castCall.fn = "clamping"
    /\ castCall.done
    /\ castCall.src = "i16"
    /\ castCall.dst = "u8"
    /\ castCall.value = <<255, 255>>
    /\ castCall.result = <<0>>

-----------------------------------------------------------------------------
(* Properties of Opt.                                                      *)

\* C10: Opt<H> behaves as Option<H>: Opt::some(h) of a handle whose index is
\* not the reserved 2^32-1 is_some, converts to Some(h) and unwraps to h;
\* Opt::none() is_none, converts to None and panics on unwrap; is_some and
\* is_none are complements of each other.
C10_OptIsOption ==
    (opt.call \in {"some", "none"} /\ opt.inspected) =>
        /\ opt.is_some = ~opt.is_none
        /\ (opt.call = "some" /\ opt.handle.idx # <<255, 255, 255, 255>>) =>
              /\ opt.is_some
              /\ opt.to_option = Some(opt.handle)
              /\ opt.unwrap = [panicked |-> FALSE, ret |-> opt.handle]
        /\ opt.call = "none" =>
              /\ opt.is_none
              /\ opt.to_option = None
              /\ opt.unwrap.panicked

C10_Witness ==
    /\ opt.call = "some"
    /\ opt.inspected
    /\ opt.handle.idx = <<254, 255, 255, 255>>
    /\ opt.is_some
    /\ opt.unwrap = [panicked |-> FALSE, ret |-> opt.handle]

-----------------------------------------------------------------------------
(* Properties of the STL writer.                                           *)

\* Does every vertex of every face have a position?
StlPositionsComplete(self) ==
    \A i \in 1..Len(self.mesh) : \A k \in 1..3 :
        self.mesh[i][k] \in DOMAIN self.vertex_positions

\* Is a token a decimal mantissa, 'E', and a signed whole exponent?
TokenIsNumber(tok) ==
    /\ tok.mantissa.text = "decimal"
    /\ tok.exponent.text = "decimal"
    /\ tok.exponent.exp >= 0

\* mantissa * 10^exponent of such a token
TokenValue(tok) ==
    Num(tok.mantissa.sig, tok.mantissa.exp + IntOfF32(Num(tok.exponent.sig, tok.exponent.exp)))

\* C11: the writer takes each face's normal from the face-normal map when
\* one is given; with calculate_normals it emits the unit-length cross
\* product (p1 - p0) x (p2 - p0) of the face's positions, and the zero normal
\* (0, 0, 0) for a degenerate face.
C11_FaceNormal ==
    (stl.call = "write" /\ stl.result.outcome = "Ok") =>
        \A i \in 1..Len(stl.self.mesh) :
            LET n == stl.result.normals[i]
                tri == stl.self.mesh[i]
                pos == stl.self.vertex_positions
                c == Cross(Sub(pos[tri[2]], pos[tri[1]]),
                           Sub(pos[tri[3]], pos[tri[1]]))
                len == Magnitude(c)
            IN IF stl.self.face_normals.kind = "FaceNormalMap"
               THEN \A k \in 1..3 :
                        n[k] = F32FromInt(stl.self.face_normals.map[i - 1][k])
               ELSE IF len = 0
               THEN \A k \in 1..3 : n[k] = F32FromInt(0)
               ELSE \A k \in 1..3 :
                        /\ n[k].k = "num"
                        /\ Num(n[k].sig * len, n[k].exp) = F32FromInt(c[k])

\* C12: when a face references a vertex that has no entry in the position
\* map, write returns an Err value; it does not panic and does not make up
\* a position.
C12_MissingPositionIsErr ==
    (/\ stl.call = "write"
     /\ stl.self.format = "Ascii"
     /\ ~StlPositionsComplete(stl.self)) =>
        stl.result.outcome = "Err"

\* C13: writing in binary format completes and produces the 80-byte header,
\* the triangle count and one 50-byte record per face.
C13_BinaryCompletes ==
    (/\ stl.call = "write"
     /\ stl.self.format = "Binary"
     /\ stl.w = "ok"
     /\ StlPositionsComplete(stl.self)) =>
        /\ stl.result.outcome = "Ok"
        /\ Len(stl.result.out) = 2 + Len(stl.self.mesh)
        /\ stl.result.out[1].kw = "header"
        /\ stl.result.out[2] = Line("count", <<Len(stl.self.mesh)>>)
        /\ \A i \in 1..Len(stl.self.mesh) :
              stl.result.out[2 + i].kw = "triangle"

\* C14: writing a mesh with n faces as ASCII emits `solid NAME`, n facet
\* blocks in face order, each with three vertex lines carrying the positions
\* of the face's vertices in order as numbers that read back equal, and
\* `endsolid NAME` with the same name.
C14_TriangleConservation ==
    (/\ stl.call = "write"
     /\ stl.self.format = "Ascii"
     /\ stl.w = "ok"
     /\ StlPositionsComplete(stl.self)) =>
        LET out == stl.result.out
            n == Len(stl.self.mesh)
            block(i) == [j \in 1..7 |-> out[1 + 7 * (i - 1) + j]]
        IN /\ stl.result.outcome = "Ok"
           /\ Len(out) = 2 + 7 * n
           /\ out[1] = Line("solid", <<stl.self.solid_name>>)
           /\ out[Len(out)] = Line("endsolid", <<stl.self.solid_name>>)
           /\ \A i \in 1..n :
                 /\ block(i)[1].kw = "facet normal"
                 /\ block(i)[2].kw = "outer loop"
                 /\ block(i)[6].kw = "endloop"
                 /\ block(i)[7].kw = "endfacet"
                 /\ \A k \in 1..3 :
                       /\ block(i)[2 + k].kw = "vertex"
                       /\ \A x \in 1..3 :
                             LET tok == block(i)[2 + k].args[x]
                                 p == stl.self.vertex_positions[stl.self.mesh[i][k]]
                             IN /\ TokenIsNumber(tok)
                                /\ TokenValue(tok) = F32FromInt(p[x])

\* C15: for every finite f32 value, positive, negative or zero, the token
\* written is a finite decimal mantissa, 'E', and a signed integer exponent,
\* and mantissa * 10^exponent is the value; other numeric types are
\* converted to f32 first.
C15_TokenIsTheValue ==
    stl.call \in {"serialize_f32", "serialize_i32"} =>
        /\ TokenIsNumber(stl.token)
        /\ TokenValue(stl.token) = stl.v

-----------------------------------------------------------------------------
(* Properties of the convert tool.                                         *)

\* Do loading the source and writing the target both succeed?
BothSucceed(c) ==
    /\ c.open_ok /\ c.source_format \in {"Ply", "Stl"}
    /\ c.header_ok /\ c.transfer_ok /\ c.finish_ok
    /\ c.target_format \in {"Ply", "Stl"}
    /\ c.encoding_ok /\ c.create_ok /\ c.write_ok

\* C16: the process exits with code 0 exactly when loading the source and
\* writing the target both succeed, and with code 1 otherwise, for every
\* source format, target format and target encoding.
C16_ExitCode ==
    tool.call = "exited" =>
        tool.process.code = IF BothSucceed(tool.c) THEN 0 ELSE 1

\* C17: when the tool fails, the error message and then each cause of the
\* chain, from the outermost to the root cause, are written to stderr, and
\* no part of the report is written to stdout.
C17_ReportOnStderr ==
    (tool.call = "exited" /\ run(tool.c).end = "Err") =>
        LET chain == run(tool.c).chain
            report == [i \in 1..Len(chain) |-> chain[i]]
            told(stream) == [i \in 1..Len(stream) |-> stream[i][2]]
            heads(stream) == {stream[i][1] : i \in 1..Len(stream)}
        IN /\ Len(tool.process.stderr) >= Len(chain)
           /\ SubSeq(told(tool.process.stderr), 1, Len(chain)) = report
           /\ "An error occured: " \notin heads(tool.process.stdout)
           /\ "  ... caused by: " \notin heads(tool.process.stdout)

-----------------------------------------------------------------------------
(* Properties of a transfer.                                               *)

\* C18: during a transfer, every add_triangle call comes after the
\* add_vertex calls that minted its three vertices, whichever order the file
\* declares its groups in, so add_triangle's assertions on the existence of
\* the vertices never fire.
C18_VerticesBeforeTriangles ==
    (xfer.call # "idle" /\ last.op = "add_triangle") =>
        /\ ~last.panicked
        /\ xfer.call # "panicked"
        /\ \A k \in 1..3 :
              /\ xfer.file.faces[xfer.nf][k] \in ToSet(mintedV)
              /\ contains_vertex(vertices, xfer.file.faces[xfer.nf][k])

C18_Witness ==
    /\ xfer.call = "finished"
    /\ xfer.file.order = <<"face", "vertex">>
    /\ Len(xfer.file.faces) = MaxFileFaces
    /\ num_faces(faces) = MaxFileFaces
    /\ last.op = "add_triangle"

-----------------------------------------------------------------------------
(* Properties of raw PLY results.                                          *)

Offsets(elem) == [i \in 1..Len(elem.prop_infos) |-> elem.prop_infos[i].offset]

\* check_triangle(&res)
check_triangle(res) ==
    LET groups == res.element_groups
        g0 == groups[1]
        g1 == groups[2]
    IN /\ Len(groups) = 2
       /\ g0.def.name = "vertex"
       /\ g0.def.count = 3
       /\ g0.def.property_defs =
              <<PropertyDef("x", Scalar("Float")),
                PropertyDef("y", Scalar("Float")),
                PropertyDef("z", Scalar("Float"))>>
       /\ Offsets(g0.elements[1]) = <<0, 4, 8>>
       /\ Properties(g0.def, g0.elements[1]) =
              <<[ty |-> "Float", v |-> 0],
                [ty |-> "Float", v |-> 0],
                [ty |-> "Float", v |-> 0]>>
       /\ Properties(g0.def, g0.elements[2]) =
              <<[ty |-> "Float", v |-> 3000],
                [ty |-> "Float", v |-> 5000],
                [ty |-> "Float", v |-> 8000]>>
       /\ Properties(g0.def, g0.elements[3]) =
              <<[ty |-> "Float", v |-> 1942],
                [ty |-> "Float", v |-> 152990],
                [ty |-> "Float", v |-> 7]>>
       /\ g1.def.name = "face"
       /\ g1.def.count = 1
       /\ g1.def.property_defs[1] =
              PropertyDef("vertex_indices", List("UChar", "UInt"))
       /\ Properties(g1.def, g1.elements[1]) =
              <<[ty |-> "UIntList", v |-> <<0, 1, 2>>]>>

\* check_triangle_extra_props(&res)
check_triangle_extra_props(res) ==
    LET groups == res.element_groups
        g0 == groups[1]
        g1 == groups[2]
        foo == <<[ty |-> "Double", v |-> 930],
                 [ty |-> "Double", v |-> 200],
                 [ty |-> "Double", v |-> 300]>>
    IN /\ Len(groups) = 2
       /\ g0.def.name = "vertex"
       /\ g0.def.count = 3
       /\ g0.def.property_defs =
              <<PropertyDef("x", Scalar("Float")),
                PropertyDef("y", Scalar("Float")),
                PropertyDef("z", Scalar("Float")),
                PropertyDef("foo[0]", Scalar("Double")),
                PropertyDef("foo[1]", Scalar("Double")),
                PropertyDef("foo[2]", Scalar("Double")),
                PropertyDef("bar", List("UInt", "Char")),
                PropertyDef("baz", Scalar("UShort"))>>
       /\ Offsets(g0.elements[1]) = <<0, 4, 8, 12, 20, 28, 36, 40>>
       /\ Properties(g0.def, g0.elements[1]) =
              <<[ty |-> "Float", v |-> 0],
                [ty |-> "Float", v |-> 0],
                [ty |-> "Float", v |-> 0]>>
              \o foo \o
              <<[ty |-> "CharList", v |-> <<>>],
                [ty |-> "UShort", v |-> 0]>>
       /\ Offsets(g0.elements[2]) = <<0, 4, 8, 12, 20, 28, 36, 41>>
       /\ Properties(g0.def, g0.elements[2]) =
              <<[ty |-> "Float", v |-> 3000],
                [ty |-> "Float", v |-> 5000],
                [ty |-> "Float", v |-> 8000]>>
              \o foo \o
              <<[ty |-> "CharList", v |-> <<-1>>],
                [ty |-> "UShort", v |-> 3]>>
       /\ Offsets(g0.elements[3]) = <<0, 4, 8, 12, 20, 28, 36, 42>>
       /\ Properties(g0.def, g0.elements[3]) =
              <<[ty |-> "Float", v |-> 1942],
                [ty |-> "Float", v |-> 152990],
                [ty |-> "Float", v |-> 7]>>
              \o foo \o
              <<[ty |-> "CharList", v |-> <<3, 8>>],
                [ty |-> "UShort", v |-> 6]>>
       /\ g1.def.name = "face"
       /\ g1.def.count = 1
       /\ g1.def.property_defs =
              <<PropertyDef("vertex_indices", List("UChar", "UInt")),
                PropertyDef("cats", Scalar("Float"))>>
       /\ Offsets(g1.elements[1]) = <<0, 13>>
       /\ Properties(g1.def, g1.elements[1]) =
              <<[ty |-> "UIntList", v |-> <<0, 1, 2>>],
                [ty |-> "Float", v |-> -99123]>>

\* The positions and bar lists of the tests.
TestPositions == <<<<0, 0, 0>>, <<3000, 5000, 8000>>, <<1942, 152990, 7>>>>

TestBar == <<<<>>, <<-1>>, <<3, 8>>>>

\* Do two raw results have the same element groups, property definitions,
\* per-record offsets and values?
RawEqual(a, b) ==
    /\ a.ok /\ b.ok
    /\ Len(a.element_groups) = Len(b.element_groups)
    /\ \A g \in 1..Len(a.element_groups) :
          LET ga == a.element_groups[g]
              gb == b.element_groups[g]
          IN /\ ga.def = gb.def
             /\ Len(ga.elements) = Len(gb.elements)
             /\ \A k \in 1..Len(ga.elements) :
                   /\ Offsets(ga.elements[k]) = Offsets(gb.elements[k])
                   /\ Properties(ga.def, ga.elements[k])
                         = Properties(gb.def, gb.elements[k])

\* C19: for the same mesh and property maps, the raw results of reading the
\* files written in ASCII, binary little-endian and binary big-endian are
\* equal: the same element groups, property definitions (name, type,
\* order), per-record offsets and values.
C19_EncodingIndependence ==
    ply.call = "ply" =>
        \A e1 \in Encodings : \A e2 \in Encodings \ {e1} :
            (ply.raw[e1] # <<>> /\ ply.raw[e2] # <<>>) =>
                RawEqual(ply.raw[e1][1], ply.raw[e2][1])

C19_Witness ==
    /\ ply.call = "ply"
    /\ ply.content = triangle_with_extra_props(TestPositions, TestBar)
    /\ \A e \in Encodings :
          /\ ply.raw[e] # <<>>
          /\ ply.raw[e][1].ok
          /\ check_triangle_extra_props(ply.raw[e][1])
    /\ ply.files["BinaryLittleEndian"][1].body
          # ply.files["BinaryBigEndian"][1].body

\* Is every property of the group a scalar?
FixedLayout(def) ==
    \A i \in 1..Len(def.property_defs) : def.property_defs[i].ty.kind = "Scalar"

\* The binary width of property i of a record holding the value v: the
\* scalar's width, or the length tag's width plus n times the value width
\* for a list of n values.
BinaryWidth(ty, v) ==
    IF ty.kind = "Scalar" THEN ScalarLen(ty.scalar_type)
    ELSE ScalarLen(ty.len_type) + Len(v) * ScalarLen(ty.scalar_type)

\* C20: in every raw element the first property is at offset 0 and each
\* following property at the previous offset plus the previous property's
\* binary width, whatever the encoding of the file; the records of a group
\* of scalars share their offsets and size.
C20_OffsetsFollowWidths ==
    ply.call = "ply" =>
        \A e \in Encodings :
            ply.raw[e] # <<>> =>
                /\ ply.raw[e][1].ok
                /\ \A g \in 1..Len(ply.raw[e][1].element_groups) :
                      LET group == ply.raw[e][1].element_groups[g]
                          defs == group.def.property_defs
                          written == ply.content[g].records
                      IN \A k \in 1..Len(group.elements) :
                            LET elem == group.elements[k]
                            IN /\ elem.prop_infos[1].offset = 0
                               /\ \A i \in 2..Len(defs) :
                                     elem.prop_infos[i].offset =
                                        elem.prop_infos[i - 1].offset
                                          + BinaryWidth(defs[i - 1].ty,
                                                        written[k][i - 1])
                               /\ FixedLayout(group.def) =>
                                     /\ Offsets(elem) = Offsets(group.elements[1])
                                     /\ Len(elem.data) = Len(group.elements[1].data)

C20_Witness ==
    /\ ply.call = "ply"
    /\ ply.content = triangle_with_extra_props(TestPositions, TestBar)
    /\ ply.raw["Ascii"] # <<>>
    /\ ply.raw["BinaryBigEndian"] # <<>>
    /\ LET vertex == ply.raw["Ascii"][1].element_groups[1]
           face == ply.raw["BinaryBigEndian"][1].element_groups[2]
       IN /\ ~FixedLayout(vertex.def)
          /\ vertex.elements[1].prop_infos[8].offset = 40
          /\ vertex.elements[2].prop_infos[8].offset = 41
          /\ vertex.elements[3].prop_infos[8].offset = 42
          /\ face.elements[1].prop_infos[2].offset = 13

\* Every reading of the bare triangle is what the tests expect.
PlyTriangleAsTested ==
    (ply.call = "ply" /\ ply.content = triangle_mesh(TestPositions)) =>
        \A e \in Encodings :
            ply.raw[e] # <<>> =>
                ply.raw[e][1].ok /\ check_triangle(ply.raw[e][1])

\* The k-th contained handle of a map, counting from the smallest.
KthHandle(m, k) ==
    CHOOSE h \in 0..(Len(m.slots) - 1) :
        /\ VecMapContainsHandle(m, h)
        /\ Cardinality({j \in 0..(h - 1) : VecMapContainsHandle(m, j)}) = k - 1

\* The names and PLY types a sequence of attached maps is expected to
\* give, in attachment order.
ExpectedDefs(props) ==
    Flatten([i \in 1..Len(props) |->
        LET a == props[i]
            ty == Scalar(PlyType(a.elem))
        IN IF a.shape = "position"
           THEN <<[name |-> "x", ty |-> ty], [name |-> "y", ty |-> ty],
                  [name |-> "z", ty |-> ty]>>
           ELSE IF a.shape = "array"
           THEN [j \in 1..Len(a.map[0]) |->
                    [name |-> a.name \o "[" \o IndexText[j] \o "]", ty |-> ty]]
           ELSE IF a.shape = "slice"
           THEN <<[name |-> a.name,
                   ty |-> [kind |-> "List", len_type |-> "UInt",
                           scalar_type |-> PlyType(a.elem)]]>>
           ELSE <<[name |-> a.name, ty |-> ty]>>])

\* The values the attached maps return for handle h, in attachment order.
ExpectedValues(props, h) ==
    Flatten([i \in 1..Len(props) |->
        IF props[i].shape \in {"position", "array"} THEN props[i].map[h]
        ELSE <<props[i].map[h]>>])

\* The values of a raw element.
RawValues(def, elem) ==
    [i \in 1..Len(def.property_defs) |-> Properties(def, elem)[i].v]

\* C21: reading what the PLY writer produced for a mesh and its attached
\* maps gives, in every encoding, a vertex group followed by a face group
\* with the mesh's counts, the property definitions in attachment order
\* (x, y, z first; an array as name[i]; vertex_indices first for faces) with
\* the PLY type of the map's element type, and the records in ascending
\* handle order with the values the maps returned.
C21_WriteReadRoundTrip ==
    ply.call = "ply" =>
        \A e \in Encodings :
            ply.raw[e] # <<>> =>
                LET w == ply.writer
                    res == ply.raw[e][1]
                    g0 == res.element_groups[1]
                    g1 == res.element_groups[2]
                IN /\ res.ok
                   /\ Len(res.element_groups) = 2
                   /\ g0.def.name = "vertex"
                   /\ g0.def.count = num_vertices(w.mesh.vertices)
                   /\ Len(g0.elements) = g0.def.count
                   /\ g0.def.property_defs = ExpectedDefs(w.vertex_props)
                   /\ \A k \in 1..Len(g0.elements) :
                         RawValues(g0.def, g0.elements[k]) =
                            ExpectedValues(w.vertex_props,
                                           KthHandle(w.mesh.vertices, k))
                   /\ g1.def.name = "face"
                   /\ g1.def.count = num_faces(w.mesh.faces)
                   /\ Len(g1.elements) = g1.def.count
                   /\ g1.def.property_defs =
                         <<[name |-> "vertex_indices",
                            ty |-> [kind |-> "List", len_type |-> "UChar",
                                    scalar_type |-> "UInt"]]>>
                         \o ExpectedDefs(w.face_props)
                   /\ \A k \in 1..Len(g1.elements) :
                         LET f == KthHandle(w.mesh.faces, k)
                         IN RawValues(g1.def, g1.elements[k]) =
                               <<VecMapIndex(w.mesh.faces, f)>>
                               \o ExpectedValues(w.face_props, f)

C21_Witness ==
    /\ ply.call = "ply"
    /\ ply.writer = ExtraPropsWriter(TestPositions, TestBar)
    /\ ply.raw["BinaryLittleEndian"] # <<>>
    /\ ply.raw["Ascii"] # <<>>
    /\ ply.raw["BinaryLittleEndian"][1].ok
    /\ Len(ply.raw["BinaryLittleEndian"][1].element_groups[1].def.property_defs) = 8
    /\ Len(ply.raw["Ascii"][1].element_groups[1].elements) = 3
    /\ RawValues(ply.raw["Ascii"][1].element_groups[1].def,
                 ply.raw["Ascii"][1].element_groups[1].elements[3])
          = <<1942, 152990, 7, 930, 200, 300, <<3, 8>>, 6>>

-----------------------------------------------------------------------------
(* Properties of property maps.                                            *)

\* C22: a map and the map made of it by map_value contain the same
\* handles; where a value is present the mapped map returns the function
\* applied to it; contains_handle is true exactly when get is Some.
C22_MapValueKeepsHandles ==
    (pmap # Idle /\ pmap.last.op = "map_value") =>
        LET l == pmap.last
        IN /\ l.mapped_contains = l.contains
           /\ l.get.some => l.mapped_get = Some(l.f[l.get.val])
           /\ l.contains <=> l.get.some
           /\ l.mapped_contains <=> l.mapped_get.some

C22_Witness ==
    /\ pmap # Idle
    /\ pmap.last.op = "map_value"
    /\ pmap.store.kind = "VecMap"
    /\ pmap.last.h = 0
    /\ ~pmap.last.contains
    /\ Store_get(pmap.store, 1) = Some(2)
    /\ Mapper_get(map_value(pmap.store, pmap.last.f), 1) = Some(20)

\* C23: insert returns the property the handle had and leaves the handle
\* with the new one; remove returns the property the handle had and leaves
\* the handle without one, or returns None and changes nothing; neither
\* changes the property of another handle; an empty store contains no
\* handle.
C23_StoreIsPartialFunction ==
    pmap # Idle =>
        LET l == pmap.last
            s == pmap.store
        IN /\ l.op = "insert" =>
                 /\ l.ret = Store_get(l.before, l.h)
                 /\ Store_get(s, l.h) = Some(l.p)
                 /\ \A g \in PropHandles \ {l.h} :
                       Store_get(s, g) = Store_get(l.before, g)
           /\ l.op = "remove" =>
                 /\ l.ret = Store_get(l.before, l.h)
                 /\ ~Store_contains_handle(s, l.h)
                 /\ ~l.ret.some => s = l.before
                 /\ \A g \in PropHandles \ {l.h} :
                       Store_get(s, g) = Store_get(l.before, g)
           /\ (l.op = "empty" /\ s.kind \in StoreKinds) =>
                 \A g \in PropHandles : ~Store_contains_handle(s, g)

C23_Witness ==
    /\ pmap # Idle
    /\ pmap.last.op = "insert"
    /\ pmap.store.kind = "VecMap"
    /\ pmap.last.ret = Some(1)
    /\ pmap.last.p = 2
    /\ pmap.last.h = 2
    /\ ~Store_contains_handle(pmap.store, 0)
    /\ Store_get(pmap.store, 1) = Some(1)

-----------------------------------------------------------------------------
(* Properties of HSizeExt::next.                                           *)

\* Is r the successor of i, both written in base 256, lowest digit first?
IsSuccessor(i, r) ==
    \E k \in 1..Len(i) :
        /\ \A j \in 1..(k - 1) : i[j] = 255 /\ r[j] = 0
        /\ r[k] = i[k] + 1
        /\ \A j \in (k + 1)..Len(i) : r[j] = i[j]

\* C24: next(i) returns i + 1 for every i below 2^32 - 1; for i = 2^32 - 1
\* it panics in a debug build and otherwise panics or returns the index 0,
\* which has been used already.
C24_NextIsSuccessor ==
    hnext.call = "next" =>
        IF hnext.i # max_value(hsize)
        THEN /\ ~hnext.result.panicked
             /\ IsSuccessor(hnext.i, hnext.result.ret)
        ELSE /\ hnext.build.profile = "debug" => hnext.result.panicked
             /\ ~hnext.result.panicked =>
                   /\ hnext.result.ret = min_value(hsize)
                   /\ Lt(hnext.result.ret, hnext.i, hsize)

C24_Witness ==
    /\ hnext.call = "next"
    /\ hnext.i = max_value(hsize)
    /\ hnext.build.profile = "release"
    /\ ~hnext.result.panicked
    /\ hnext.result.ret = <<0, 0, 0, 0>>
-----------------------------------------------------------------------------
(* Several blades around a vertex.                                         *)

PairwiseDistinct(tri) == tri[1] # tri[2] /\ tri[1] # tri[3] /\ tri[2] # tri[3]

AllContained(vs, tri) == \A i \in 1..3 : contains_vertex(vs, tri[i])

\* C25: on a SharedVertexMesh add_triangle with three pairwise distinct
\* vertices the mesh contains does not panic and returns a face handle the
\* mesh did not contain, whatever faces exist already (a vertex with two or
\* three fans, a face joining two fans); the new handle holds the triple,
\* and every face added before keeps its handle and its triple.
C25_AddTriangleOnMultiBlade ==
    [][LET tri == last'.tri
           h == VecMapNextPushHandle(faces)
       IN (PairwiseDistinct(tri) /\ AllContained(vertices, tri)) =>
            /\ ~last'.panicked
            /\ last'.ret = Some(h)
            /\ ~contains_face(faces, h)
            /\ contains_face(faces', h)
            /\ vertices_around_triangle(faces', h) = tri
            /\ num_faces(faces') = num_faces(faces) + 1
            /\ vertices' = vertices
            /\ \A f \in 0..(h - 1) :
                  contains_face(faces, f) =>
                     /\ contains_face(faces', f)
                     /\ vertices_around_triangle(faces', f) =
                           vertices_around_triangle(faces, f)]_vars

\* connect_two_blades_around_vertex: the three fans around va, then the face
\* [vd, vc, va] that joins two of them, accepted as the fourth face.
C25_Witness ==
    /\ num_vertices(vertices) = BladeVertexCount
    /\ num_faces(faces) = 4
    /\ Faces(faces) = <<0, 1, 2, 3>>
    /\ vertices_around_triangle(faces, 0) = <<0, 2, 1>>
    /\ vertices_around_triangle(faces, 1) = <<0, 4, 3>>
    /\ vertices_around_triangle(faces, 2) = <<0, 6, 5>>
    /\ vertices_around_triangle(faces, 3) = <<3, 2, 0>>
    /\ last = [op |-> "add_triangle", panicked |-> FALSE, ret |-> Some(3),
               tri |-> <<3, 2, 0>>]
-----------------------------------------------------------------------------
(* The handle iterators.                                                   *)

\* What next_*_handle_from is to return for the map m and the index start:
\* the smallest handle at or after start that m contains, None without one.
IsNextFrom(r, m, start) ==
    LET later == {h \in start..(MaxMinted + 1) : VecMapContainsHandle(m, h)}
    IN IF later = {} THEN r = None
       ELSE /\ r.some
            /\ r.val \in later
            /\ \A h \in later : r.val <= h

\* seq lists every handle m contains once, in ascending order.
VisitsAll(seq, m) ==
    /\ Increasing(seq)
    /\ ToSet(seq) = {h \in 0..(MaxMinted + 1) : VecMapContainsHandle(m, h)}
    /\ Len(seq) = VecMapNumElements(m)

\* C26: next_vertex_handle_from(start) and next_face_handle_from(start) are
\* the smallest contained handle whose index is at least start, or None; the
\* iteration from index 0 visits every contained handle once in ascending
\* order and skips the removed ones, after any additions and removals.
C26_NextHandleFrom ==
    /\ \A start \in 0..(MaxVertices + 1) :
          IsNextFrom(next_vertex_handle_from(vertices, start), vertices, start)
    /\ \A start \in 0..(MaxFaces + 1) :
          IsNextFrom(next_face_handle_from(faces, start), faces, start)
    /\ VisitsAll(Vertices(vertices), vertices)
    /\ VisitsAll(Faces(faces), faces)

\* A face in the middle has been removed: the search from its index finds
\* the face after it and the iteration skips it.
C26_Witness ==
    /\ last.op = "remove_face"
    /\ contains_face(faces, 0)
    /\ ~contains_face(faces, 1)
    /\ contains_face(faces, 2)
    /\ next_face_handle_from(faces, 1) = Some(2)
    /\ next_face_handle_from(faces, 3) = None
    /\ Faces(faces) = <<0, 2>>
    /\ Vertices(vertices) = <<0, 1, 2>>
-----------------------------------------------------------------------------
(* split_face.                                                             *)

\* C27: split_face(f) on a contained face [a, b, c] mints one vertex x and
\* returns it; f stays contained; [a, b, x], [b, c, x], [c, a, x] stand in
\* place of f (two faces and one vertex more), every other face and vertex
\* is as before.  With a handle the mesh does not contain it panics and the
\* mesh is as before.
C27_SplitFace ==
    [][last'.op = "split_face" =>
         LET f == last'.face
             n == VecMapNextPushHandle(faces)
         IN IF contains_face(faces, f)
            THEN LET t == vertices_around_triangle(faces, f)
                     a == t[1]
                     b == t[2]
                     c == t[3]
                     x == last'.ret.val
                 IN /\ ~last'.panicked
                    /\ last'.ret.some
                    /\ ~contains_vertex(vertices, x)
                    /\ contains_vertex(vertices', x)
                    /\ num_vertices(vertices') = num_vertices(vertices) + 1
                    /\ \A v \in 0..MaxSplitVertices :
                          v # x => (contains_vertex(vertices', v) <=>
                                       contains_vertex(vertices, v))
                    /\ num_faces(faces') = num_faces(faces) + 2
                    /\ contains_face(faces', f)
                    /\ vertices_around_triangle(faces', f) = <<a, b, x>>
                    /\ \E g, h \in SplitFaceIdx :
                          /\ g # h
                          /\ ~contains_face(faces, g)
                          /\ ~contains_face(faces, h)
                          /\ contains_face(faces', g)
                          /\ contains_face(faces', h)
                          /\ vertices_around_triangle(faces', g) = <<b, c, x>>
                          /\ vertices_around_triangle(faces', h) = <<c, a, x>>
                          /\ \A o \in SplitFaceIdx \ {f, g, h} :
                                /\ contains_face(faces', o) <=>
                                      contains_face(faces, o)
                                /\ contains_face(faces, o) =>
                                      vertices_around_triangle(faces', o) =
                                         vertices_around_triangle(faces, o)
            ELSE /\ last'.panicked
                 /\ vertices' = vertices
                 /\ faces' = faces]_vars

\* Face 1 of three faces was split: it holds [2, 1, 3] now, the faces 3 and
\* 4 are new, the faces 0 and 2 are as they were added.
C27_Witness ==
    /\ last = [op |-> "split_face", panicked |-> FALSE, ret |-> Some(3),
               face |-> 1]
    /\ Vertices(vertices) = <<0, 1, 2, 3>>
    /\ Faces(faces) = <<0, 1, 2, 3, 4>>
    /\ vertices_around_triangle(faces, 0) = <<0, 1, 2>>
    /\ vertices_around_triangle(faces, 1) = <<2, 1, 3>>
    /\ vertices_around_triangle(faces, 2) = <<0, 1, 2>>
    /\ vertices_around_triangle(faces, 3) = <<1, 0, 3>>
    /\ vertices_around_triangle(faces, 4) = <<0, 2, 3>>

\* split_face with a handle whose face has been removed: a panic.
C27_WitnessPanic ==
    /\ last.op = "split_face"
    /\ last.panicked
    /\ num_faces(faces) > 0
    /\ ~contains_face(faces, last.face)
    /\ last.face < VecMapNextPushHandle(faces)
-----------------------------------------------------------------------------
(* The ranges of the number types.  A whole number is written in two's     *)
(* complement on WideLen bytes, least significant first: wide enough for   *)
(* the limits of f64.                                                      *)

WideLen == 8 * Bytes("u128") + 1

\* An integer value of type t, sign or zero extended.
Widen(v, t) ==
    LET fill == IF Signed(t) /\ v[Len(v)] >= 128 THEN 255 ELSE 0
    IN [i \in 1..WideLen |-> IF i <= Len(v) THEN v[i] ELSE fill]

\* a < b: at the most significant byte in which the two differ, a has the
\* smaller one (the sign bit flipped in the top byte, as in OrderKey).
WideLt(a, b) ==
    /\ a # b
    /\ LET i == CHOOSE k \in 1..WideLen :
                   /\ a[k] # b[k]
                   /\ SubSeq(a, k + 1, WideLen) = SubSeq(b, k + 1, WideLen)
           key(x) == IF i = WideLen THEN (x + 128) % 256 ELSE x
       IN key(a[i]) < key(b[i])

\* f32::MAX = 2^128 - 2^104 (24 bits set from bit 104 on), f64::MAX =
\* 2^1024 - 2^971 (53 bits set from bit 971 on).
FloatMax(t) ==
    IF t = "f32"
    THEN [i \in 1..WideLen |-> IF i \in 14..16 THEN 255 ELSE 0]
    ELSE [i \in 1..WideLen |->
             IF i = 122 THEN 248 ELSE IF i \in 123..128 THEN 255 ELSE 0]

\* f32::MIN = -f32::MAX = -2^128 + 2^104, f64::MIN = -2^1024 + 2^971.
FloatMin(t) ==
    IF t = "f32"
    THEN [i \in 1..WideLen |->
             IF i = 14 THEN 1 ELSE IF i >= 17 THEN 255 ELSE 0]
    ELSE [i \in 1..WideLen |->
             IF i = 122 THEN 8 ELSE IF i = WideLen THEN 255 ELSE 0]

\* Dst::MIN and Dst::MAX
RangeMin(t) == IF IsFloat(t) THEN FloatMin(t) ELSE Widen(min_value(t), t)
RangeMax(t) == IF IsFloat(t) THEN FloatMax(t) ELSE Widen(max_value(t), t)

Small(b, fill) == [i \in 1..WideLen |-> IF i = 1 THEN b ELSE fill]

\* The greatest whole number not above, and the least not below, a finite
\* value v of the float type t.
FloatFloor(v, t) ==
    CASE v = "MIN" -> FloatMin(t)
      [] v = "-1.5" -> Small(254, 255)
      [] v = "0.0" -> Small(0, 0)
      [] v = "3.0" -> Small(3, 0)
      [] v = "MAX" -> FloatMax(t)

FloatCeil(v, t) ==
    CASE v = "MIN" -> FloatMin(t)
      [] v = "-1.5" -> Small(255, 255)
      [] v = "0.0" -> Small(0, 0)
      [] v = "3.0" -> Small(3, 0)
      [] v = "MAX" -> FloatMax(t)

\* Does the value v of type s lie within [d::MIN, d::MAX]?  An infinity or
\* a NaN is a value of every float type and of no integer type.
InRange(v, s, d) ==
    IF IsFloat(s)
    THEN IF v \in {"NaN", "-inf", "inf"} THEN IsFloat(d)
         ELSE /\ ~WideLt(FloatFloor(v, s), RangeMin(d))
              /\ ~WideLt(RangeMax(d), FloatCeil(v, s))
    ELSE /\ ~WideLt(Widen(v, s), RangeMin(d))
         /\ ~WideLt(RangeMax(d), Widen(v, s))

\* C28: whenever try_rounding returns Some for a pair (Src, Dst), the value
\* cast lies within [Dst::MIN, Dst::MAX]: a rounding cast has nothing to
\* clamp and cannot overflow, u128 -> f32 and f32 -> i128 included.
C28_RoundingStaysInRange ==
    (castCall.fn = "try_rounding" /\ castCall.done /\ castCall.result.some) =>
        InRange(castCall.value, castCall.src, castCall.dst)
-----------------------------------------------------------------------------
(* The convert tool and the target path.                                   *)

\* The position of a step among the steps that succeeded, 0 when it is not
\* among them.
DoneAt(step) ==
    IF \E i \in DOMAIN tool.steps : tool.steps[i] = step
    THEN CHOOSE i \in DOMAIN tool.steps : tool.steps[i] = step
    ELSE 0

C29_WitnessUntouched ==
    /\ tool.call = "convert"
    /\ tool.pc = "exited"
    /\ tool.failed = "encoding"
    /\ DoneAt("finish") > 0
    /\ tool.target = tool.before

====
